---- MODULE Spec2Model ----
(***************************************************************************)
(* Retrieval and context-assembly engine of the EPLC assistant.            *)
(*                                                                         *)
(*   backend_api.py  EPLCBackend: generate_document_section and            *)
(*                   answer_question (specification SpecBackend)           *)
(*   generation.py   the drafting loop of the command line (SpecBackend)   *)
(*   qa.py           start-up dimension check and the dual-database QA     *)
(*                   loop (specification SpecQA)                           *)
(*   the helper functions of the three files, called on their own          *)
(*                   (specification SpecFunctions)                         *)
(*                                                                         *)
(* Distances and similarities are fixed-point numbers: the integer n       *)
(* stands for n / One, so One is the float literal 1.0.  The values the    *)
(* model draws are chosen so that the code's binary floating point and     *)
(* exact arithmetic give the same comparison results on them.              *)
(***************************************************************************)
EXTENDS Integers, Sequences, FiniteSets, TLC

VARIABLES
    program,    \* the program this process runs: "backend_api", "generation", "qa" or "ibm"
    settings,   \* SIM_FILTER and MIN_SIM, as EPLCBackend.__init__ and generation.main read them
    request,    \* the last call made on the backend and what its collaborators did
    cli,        \* generation.py main: position in the loop and the locals of this round
    response,   \* what that call returned (or that an exception escaped it)
    qa_pc,      \* qa.py: position of the process
    dims,       \* qa.py: the globals emb_dim_eplc, emb_dim_hhs and model_dim
    qa_fatal,   \* qa.py: why the process stopped, and the collection its message names
    q,          \* qa.py main: the question being handled
    ids,        \* qa.py main: local ids
    docs,       \* qa.py main: local docs
    dists,      \* qa.py main: local dists
    qa_calls,   \* qa.py main: the calls made while handling this question, in order
    qa_out,     \* qa.py main: what was printed for this question
    calc,       \* a helper function called on its own: its arguments and what it returned
    ui          \* ibm.py: st.session_state of one browser session and what is on its screen

vars == <<program, settings, request, response, cli,
          qa_pc, dims, qa_fatal, q, ids, docs, dists, qa_calls, qa_out, calc, ui>>

backend_vars == <<program, settings, request, response, cli>>
qa_vars == <<qa_pc, dims, qa_fatal, q, ids, docs, dists, qa_calls, qa_out>>

----------------------------------------------------------------------------
(* Values *)

\* the float literal 1.0 of `1.0 - float(d)`, in fixed point
One == 10000

\* a distance that float() rejects (None, a non-numeric string)
NoneDist == 0 - 1

\* Python's None, and a key a returned dict does not have
NoneVal == "<None>"
Absent == "<absent>"

\* most hits one query returns in the model (n_results = top_k)
MaxHits == 2

\* distances a collection reports: 0.0, 0.5, 0.7, 0.7375, 0.7376, 1.2
DistValues == {0, 5000, 7000, 7375, 7376, 12000}

\* SIM_FILTER and MIN_SIM settings the model draws from (0.45 and 0.35 are the defaults)
SimFilters == {4500, 5000}
MinSims == {0, 3500, 8000}

\* the document returned at rank i
DocAt(i) == <<"doc one", "doc two", "doc three", "doc four">>[i]

\* sequences of length 0..n over S
SeqsUpTo(S, n) == UNION {[1..m -> S] : m \in 0..n}

----------------------------------------------------------------------------
(* backend_api.py: helpers *)

PHASE_PATHS ==
    [requirement    |-> "./vector_db/Requirement_db",
     design         |-> "./vector_db/Design_db",
     implementation |-> "./vector_db/Implementation_db",
     development    |-> "./vector_db/Development_db"]

\* str.lower() on the strings the model passes: phase names, templates, sections
lower(s) ==
    CASE s = "Design" -> "design"
      [] s = "Requirement" -> "requirement"
      [] s = "Exit" -> "exit"
      [] s = "SLA" -> "sla"
      [] s = "Scope" -> "scope"
      [] OTHER -> s

\* a conversion whose except branch returns 1.0
dist_to_sim_default_one(d) == IF d = NoneDist THEN One ELSE One - d

dist_to_sim(d) == IF d = NoneDist THEN 0 ELSE One - d

\* a filter that drops a hit whose similarity equals the floor
RECURSIVE filter_above_threshold(_, _, _)
filter_above_threshold(ds, dd, sim_filter) ==
    IF ds = <<>> \/ dd = <<>> THEN <<>>
    ELSE (IF dist_to_sim(Head(dd)) > sim_filter THEN <<Head(ds)>> ELSE <<>>)
         \o filter_above_threshold(Tail(ds), Tail(dd), sim_filter)

\* a filter that pairs each document with the distance of the hit after it
RECURSIVE filter_by_next_distance(_, _, _)
filter_by_next_distance(ds, dd, sim_filter) ==
    IF ds = <<>> \/ Len(dd) <= 1 THEN <<>>
    ELSE (IF dist_to_sim(dd[2]) >= sim_filter THEN <<Head(ds)>> ELSE <<>>)
         \o filter_by_next_distance(Tail(ds), Tail(dd), sim_filter)

RECURSIVE filter_by_threshold(_, _, _)
filter_by_threshold(ds, dd, sim_filter) ==
    IF ds = <<>> \/ dd = <<>> THEN <<>>
    ELSE (IF dist_to_sim(Head(dd)) >= sim_filter THEN <<Head(ds)>> ELSE <<>>)
         \o filter_by_threshold(Tail(ds), Tail(dd), sim_filter)

CONTEXT_SEP == "\n\n---\n\n"
NO_MATCHES == "(no strong matches)"

RECURSIVE str_join(_, _)
str_join(sep, ds) ==
    IF ds = <<>> THEN ""
    ELSE IF Len(ds) = 1 THEN ds[1]
    ELSE ds[1] \o sep \o str_join(sep, Tail(ds))

\* an assembly that joins whatever it is given, as make_prompt of qa.py does
join_context_no_sentinel(ds) == str_join(CONTEXT_SEP, ds)

join_context(ds) == IF ds # <<>> THEN str_join(CONTEXT_SEP, ds) ELSE NO_MATCHES

----------------------------------------------------------------------------
(* backend_api.py: one request and what its collaborators do during it *)

PhaseArgs == {"requirement", "Design", "bogus", NoneVal}

\* which database folders exist
FileSystems == {{}, {PHASE_PATHS.implementation},
                {PHASE_PATHS[p] : p \in DOMAIN PHASE_PATHS}}

\* list_collections() of the opened database
CollectionLists == {<<>>, <<"c1">>, <<"c1", "c2">>}

\* message.content of the completion: None, empty, blank, text
Contents == {NoneVal, "", "  ", "Generated text."}

\* (content or "").strip() on those
strip(s) == IF s = "  " THEN "" ELSE s

\* what the collection answers to query(): distances of its hits, best first or not
QueryAnswers == SeqsUpTo(DistValues \cup {NoneDist}, MaxHits)

embed_1024(e) == IF e.embed_ok THEN [raised |-> FALSE] ELSE [raised |-> TRUE]

\* query_database: (docs, dists) and the model calls made
query_database(e) ==
    IF embed_1024(e).raised
    THEN [docs |-> <<>>, dists |-> <<>>, calls |-> <<"embed">>]
    ELSE IF ~e.query_ok
    THEN [docs |-> <<>>, dists |-> <<>>, calls |-> <<"embed", "query">>]
    ELSE [docs |-> [i \in 1..Len(e.answer) |-> DocAt(i)],
          dists |-> e.answer,
          calls |-> <<"embed", "query">>]

\* chat_generate: the stripped text, or an exception
chat_generate(e) ==
    IF ~e.chat_ok THEN [raised |-> TRUE, text |-> ""]
    ELSE [raised |-> FALSE,
          text |-> strip(IF e.content = NoneVal THEN "" ELSE e.content)]

Max(S, default) == IF S = {} THEN default ELSE CHOOSE m \in S : \A n \in S : n <= m

\* a maximum that treats no hits as a perfect match
best_sim_default_one(dd) == Max({dist_to_sim(dd[i]) : i \in 1..Len(dd)}, One)

\* a gate that looks at the worst hit instead of the best
Least(S, default) == IF S = {} THEN default ELSE CHOOSE m \in S : \A n \in S : m <= n
worst_sim(dd) == Least({dist_to_sim(dd[i]) : i \in 1..Len(dd)}, 0)

\* best_sim = max([dist_to_sim(d) for d in dists], default=0.0)
best_sim(dd) == Max({dist_to_sim(dd[i]) : i \in 1..Len(dd)}, 0)

\* a gate that also fires at the threshold itself
needs_disclaimer_at_threshold(dd, min_sim) == 4 * best_sim(dd) <= 3 * min_sim

\* best_sim < (min_sim * 0.75), 0.75 being 3/4
needs_disclaimer(dd, min_sim) == 4 * best_sim(dd) < 3 * min_sim

ASSUMPTIONS ==
    "\n\nAssumptions & Next Steps:\n"
    \o "- Confirm data categories and user groups.\n"
    \o "- Validate environmental dependencies.\n"
    \o "- List technical or security risks.\n"
    \o "- Identify owner responsibilities.\n"

\* the dict a handler returns; Absent marks a key the dict does not have
Dict(success, draft, answer, error) ==
    [success |-> success, draft |-> draft, answer |-> answer, error |-> error]

\* the outcome of a handler's body: a returned dict or a raised exception, with
\* the locals the body had reached and the model calls it made
Outcome(raised, ret, qd, kept, context, generated) ==
    [raised |-> raised, ret |-> ret, docs |-> qd.docs, dists |-> qd.dists,
     kept |-> kept, context |-> context, generated |-> generated,
     calls |-> qd.calls \o (IF context = Absent THEN <<>> ELSE <<"chat">>)]

NoQuery == [docs |-> <<>>, dists |-> <<>>, calls |-> <<>>]

\* a handler that embeds the query text before it validates its arguments
Early_after_embedding(ret) ==
    Outcome(FALSE, ret, [docs |-> <<>>, dists |-> <<>>, calls |-> <<"embed">>],
            <<>>, Absent, Absent)

\* `return {...}` before anything was retrieved
Early(ret) == Outcome(FALSE, ret, NoQuery, <<>>, Absent, Absent)

\* an exception raised in the body, with its message
Raises(msg, qd, kept, context) ==
    Outcome(TRUE, Dict(FALSE, Absent, Absent, msg), qd, kept, context, Absent)

\* a handler whose gate looks only at the hits that survived the filter
generate_document_section_gate_on_kept(b, e) ==
    IF e.phase = NoneVal
    THEN Raises("'NoneType' object has no attribute 'lower'", NoQuery, <<>>, Absent)
    ELSE LET phase == lower(e.phase) IN
    IF phase \notin DOMAIN PHASE_PATHS
    THEN Early(Dict(FALSE, Absent, Absent,
           "Invalid phase. Must be one of: requirement, design, implementation, development"))
    ELSE LET chroma_path == PHASE_PATHS[phase] IN
    IF chroma_path \notin e.fs
    THEN Early(Dict(FALSE, Absent, Absent,
           "Database folder for phase '" \o phase \o "' not found at " \o chroma_path))
    ELSE IF ~e.open_ok
    THEN Raises("chromadb: cannot open the database", NoQuery, <<>>, Absent)
    ELSE IF e.collections = <<>>
    THEN Early(Dict(FALSE, Absent, Absent, "No collections found in " \o phase \o " database"))
    ELSE LET qd == query_database(e)
             kept == filter_by_threshold(qd.docs, qd.dists, b.sim_filter)
             context == join_context(kept)
             gen == chat_generate(e)
             kept_dists == SelectSeq(qd.dists, LAMBDA d : dist_to_sim(d) >= b.sim_filter)
         IN  IF gen.raised
             THEN Raises("openai: the completion failed", qd, kept, context)
             ELSE LET draft == gen.text \o (IF needs_disclaimer(kept_dists, b.min_sim)
                                            THEN ASSUMPTIONS ELSE "")
                  IN  Outcome(FALSE, Dict(TRUE, draft, Absent, NoneVal),
                              qd, kept, context, gen.text)

generate_document_section_body(b, e) ==
    IF e.phase = NoneVal
    THEN Raises("'NoneType' object has no attribute 'lower'", NoQuery, <<>>, Absent)
    ELSE LET phase == lower(e.phase) IN
    IF phase \notin DOMAIN PHASE_PATHS
    THEN Early(Dict(FALSE, Absent, Absent,
           "Invalid phase. Must be one of: requirement, design, implementation, development"))
    ELSE LET chroma_path == PHASE_PATHS[phase] IN
    IF chroma_path \notin e.fs
    THEN Early(Dict(FALSE, Absent, Absent,
           "Database folder for phase '" \o phase \o "' not found at " \o chroma_path))
    ELSE IF ~e.open_ok
    THEN Raises("chromadb: cannot open the database", NoQuery, <<>>, Absent)
    ELSE IF e.collections = <<>>
    THEN Early(Dict(FALSE, Absent, Absent, "No collections found in " \o phase \o " database"))
    ELSE LET qd == query_database(e)
             kept == filter_by_threshold(qd.docs, qd.dists, b.sim_filter)
             context == join_context(kept)
             gen == chat_generate(e)
         IN  IF gen.raised
             THEN Raises("openai: the completion failed", qd, kept, context)
             ELSE LET draft == gen.text \o (IF needs_disclaimer(qd.dists, b.min_sim)
                                            THEN ASSUMPTIONS ELSE "")
                  IN  Outcome(FALSE, Dict(TRUE, draft, Absent, NoneVal),
                              qd, kept, context, gen.text)

\* try: ... except Exception as e: return {'success': False, 'error': str(e), 'draft': None}
generate_document_section(b, e) ==
    LET o == generate_document_section_body(b, e)
    IN  IF o.raised
        THEN [o EXCEPT !.raised = FALSE,
                       !.ret = Dict(FALSE, NoneVal, Absent, o.ret.error)]
        ELSE o

\* a fallback to the first phase of PHASE_PATHS instead of "implementation"
answer_question_phase_first(lowered) ==
    IF lowered \notin DOMAIN PHASE_PATHS THEN "requirement" ELSE lowered

\* if phase not in self.PHASE_PATHS: phase = "implementation"
answer_question_phase(lowered) ==
    IF lowered \notin DOMAIN PHASE_PATHS THEN "implementation" ELSE lowered

answer_question_body(b, e) ==
    IF e.phase = NoneVal
    THEN Raises("'NoneType' object has no attribute 'lower'", NoQuery, <<>>, Absent)
    ELSE LET lowered == lower(e.phase)
             phase == answer_question_phase(lowered)
             chroma_path == PHASE_PATHS[phase] IN
    IF chroma_path \notin e.fs
    THEN Early(Dict(FALSE, Absent, Absent,
           "Database folder for phase '" \o phase \o "' not found"))
    ELSE IF ~e.open_ok
    THEN Raises("chromadb: cannot open the database", NoQuery, <<>>, Absent)
    ELSE IF e.collections = <<>>
    THEN Early(Dict(FALSE, Absent, Absent, "No collections found in database"))
    ELSE LET qd == query_database(e)
             kept == filter_by_threshold(qd.docs, qd.dists, b.sim_filter)
             context == join_context(kept)
             gen == chat_generate(e)
         IN  IF gen.raised
             THEN Raises("openai: the completion failed", qd, kept, context)
             ELSE Outcome(FALSE, Dict(TRUE, Absent, gen.text, NoneVal),
                          qd, kept, context, gen.text)

\* try: ... except Exception as e: return {'success': False, 'error': str(e), 'answer': None}
answer_question(b, e) ==
    LET o == answer_question_body(b, e)
    IN  IF o.raised
        THEN [o EXCEPT !.raised = FALSE,
                       !.ret = Dict(FALSE, Absent, NoneVal, o.ret.error)]
        ELSE o

Handler(op, b, e) ==
    IF op = "generate_document_section" THEN generate_document_section(b, e)
    ELSE answer_question(b, e)

----------------------------------------------------------------------------
(* backend_api.py: the requests the model makes *)

\* the arguments and what the file system and the database client do
PreRequests ==
    [phase : PhaseArgs, fs : FileSystems,
     open_ok : BOOLEAN,             \* PersistentClient / list_collections / get_collection
     collections : CollectionLists]

\* what the embedder and the collection do: embeddings.create raises, query raises,
\* or the collection answers
Retrievals ==
    {[embed_ok |-> FALSE, query_ok |-> TRUE, answer |-> <<>>],
     [embed_ok |-> TRUE, query_ok |-> FALSE, answer |-> <<>>]}
    \cup {[embed_ok |-> TRUE, query_ok |-> TRUE, answer |-> a] : a \in QueryAnswers}

\* what the chat model does: chat.completions.create raises, or returns a content
Generations ==
    {[chat_ok |-> FALSE, content |-> NoneVal]}
    \cup {[chat_ok |-> TRUE, content |-> c] : c \in Contents}

Request(op, pre, r, g) ==
    [op |-> op, phase |-> pre.phase, fs |-> pre.fs, open_ok |-> pre.open_ok,
     collections |-> pre.collections, embed_ok |-> r.embed_ok, query_ok |-> r.query_ok,
     answer |-> r.answer, chat_ok |-> g.chat_ok, content |-> g.content]

NoRetrieval == [embed_ok |-> TRUE, query_ok |-> TRUE, answer |-> <<>>]
NoGeneration == [chat_ok |-> TRUE, content |-> "Generated text."]

\* a request that stops before retrieval never consults the embedder, the
\* collection or the chat model: one request stands for all of them
StopsEarly(op, b, pre) ==
    Handler(op, b, Request(op, pre, NoRetrieval, NoGeneration)).context = Absent

NoRequest ==
    [op |-> "none", phase |-> NoneVal, fs |-> {}, open_ok |-> TRUE, collections |-> <<>>,
     embed_ok |-> TRUE, query_ok |-> TRUE, answer |-> <<>>, chat_ok |-> TRUE,
     content |-> NoneVal]

NoResponse == Early(Dict(FALSE, Absent, Absent, Absent))

BackendInit ==
    /\ settings \in [sim_filter : SimFilters, min_sim : MinSims]
    /\ request = NoRequest
    /\ response = NoResponse

\* the default settings: SIM_FILTER 0.45, MIN_SIM 0.35
DefaultBackend == [sim_filter |-> 4500, min_sim |-> 3500]

\* one call of a handler by the front end, which makes its calls one at a time
Call(op) ==
    /\ program = "backend_api"
    /\ request = NoRequest
    /\ \E pre \in PreRequests :
        IF StopsEarly(op, settings, pre)
        THEN /\ request' = Request(op, pre, NoRetrieval, NoGeneration)
             /\ response' = Handler(op, settings, request')
        ELSE \E r \in Retrievals, g \in Generations :
             /\ request' = Request(op, pre, r, g)
             /\ response' = Handler(op, settings, request')

GenerateDocumentSection ==
    /\ Call("generate_document_section")
    /\ UNCHANGED <<program, settings, cli, qa_vars, calc, ui>>

AnswerQuestion ==
    /\ Call("answer_question")
    /\ UNCHANGED <<program, settings, cli, qa_vars, calc, ui>>

\* the front end has read result["success"] and the draft, answer or error: the
\* backend keeps nothing of the call
Return ==
    /\ program = "backend_api"
    /\ request # NoRequest
    /\ request' = NoRequest
    /\ response' = NoResponse
    /\ UNCHANGED <<program, settings, cli, qa_vars, calc, ui>>

----------------------------------------------------------------------------
(* generation.py *)

GEN_PHASE_PATHS ==
    [requirement    |-> "./vector_db/Requirement_db",
     design         |-> "./vector_db/Design_db",
     implementation |-> "./vector_db/Implementation_db",
     development    |-> "./vector_db/Development_db"]

Retriever_dist_to_sim(d) == IF d = NoneDist THEN 0 ELSE One - d

gen_embed_1024(e) == IF e.embed_ok THEN [raised |-> FALSE] ELSE [raised |-> TRUE]

\* Retriever.query: (docs, dists) and the model calls made
Retriever_query(e) ==
    IF gen_embed_1024(e).raised
    THEN [docs |-> <<>>, dists |-> <<>>, calls |-> <<"embed">>]
    ELSE IF ~e.query_ok
    THEN [docs |-> <<>>, dists |-> <<>>, calls |-> <<"embed", "query">>]
    ELSE [docs |-> [i \in 1..Len(e.answer) |-> DocAt(i)],
          dists |-> e.answer,
          calls |-> <<"embed", "query">>]

RECURSIVE gen_filter_by_threshold(_, _, _)
gen_filter_by_threshold(ds, dd, sim_th) ==
    IF ds = <<>> \/ dd = <<>> THEN <<>>
    ELSE (IF Retriever_dist_to_sim(Head(dd)) >= sim_th THEN <<Head(ds)>> ELSE <<>>)
         \o gen_filter_by_threshold(Tail(ds), Tail(dd), sim_th)

gen_join_context(ds) == IF ds # <<>> THEN str_join(CONTEXT_SEP, ds) ELSE NO_MATCHES

gen_chat_generate(e) ==
    IF ~e.chat_ok THEN [raised |-> TRUE, text |-> ""]
    ELSE [raised |-> FALSE,
          text |-> strip(IF e.content = NoneVal THEN "" ELSE e.content)]

\* best_sim = max([Retriever.dist_to_sim(d) for d in dists], default=0.0)
gen_best_sim(dd) == Max({Retriever_dist_to_sim(dd[i]) : i \in 1..Len(dd)}, 0)

\* best_sim < (min_sim * 0.75)
gen_needs_disclaimer(dd, min_sim) == 4 * gen_best_sim(dd) < 3 * min_sim

\* the lines typed in one round: the phase, the template, the section, the details
PhaseLines == {"requirement", "Design", "bogus", "exit"}
RoundLines ==
    {[template |-> "exit", section |-> "", details |-> ""],
     [template |-> "SLA", section |-> "Exit", details |-> ""],
     [template |-> "SLA", section |-> "Scope", details |-> ""],
     [template |-> "SLA", section |-> "Scope", details |-> "A billing service."]}

\* where a round of the loop ends: "exit" (break), "skipped" (continue), "crash" (an
\* exception leaves main) or "printed" (the draft), with the locals it had set
Round(pc, phase, coll, qd, kept, context, generated, draft) ==
    [pc |-> pc, phase |-> phase, coll |-> coll, docs |-> qd.docs, dists |-> qd.dists,
     kept |-> kept, context |-> context, generated |-> generated, draft |-> draft,
     calls |-> qd.calls \o (IF context = Absent THEN <<>> ELSE <<"chat">>)]

\* a round that ends before a collection is bound
RoundEnds(pc, phase) == Round(pc, phase, Absent, NoQuery, <<>>, Absent, Absent, Absent)

\* one round of the while loop of main, lines 123-215
generation_main(b, e) ==
    LET typed == lower(e.phase) IN
    IF typed = "exit" THEN RoundEnds("exit", typed)
    ELSE IF typed \notin DOMAIN GEN_PHASE_PATHS THEN RoundEnds("skipped", typed)
    ELSE IF GEN_PHASE_PATHS[typed] \notin e.fs THEN RoundEnds("skipped", typed)
    ELSE IF ~e.open_ok THEN RoundEnds("crash", typed)
    ELSE IF e.collections = <<>> /\ e.impl_collections = <<>>
    THEN RoundEnds("skipped", typed)
    ELSE LET phase == IF e.collections = <<>> THEN "implementation" ELSE typed
             coll == IF e.collections = <<>> THEN e.impl_collections[1]
                     ELSE e.collections[1]
         IN
    IF lower(e.template) = "exit" \/ lower(e.section) = "exit"
    THEN Round("exit", phase, coll, NoQuery, <<>>, Absent, Absent, Absent)
    ELSE IF e.details = ""
    THEN Round("skipped", phase, coll, NoQuery, <<>>, Absent, Absent, Absent)
    ELSE LET qd == Retriever_query(e)
             kept == gen_filter_by_threshold(qd.docs, qd.dists, b.sim_filter)
             context == gen_join_context(kept)
             gen == gen_chat_generate(e)
         IN  IF gen.raised
             THEN Round("crash", phase, coll, qd, kept, context, Absent, Absent)
             ELSE LET draft == gen.text \o (IF gen_needs_disclaimer(qd.dists, b.min_sim)
                                            THEN ASSUMPTIONS ELSE "")
                  IN  Round("printed", phase, coll, qd, kept, context, gen.text, draft)

\* what is typed and what the file system and the database client do
PreRounds ==
    [phase : PhaseLines, fs : FileSystems, open_ok : BOOLEAN,
     collections : CollectionLists, impl_collections : CollectionLists,
     lines : RoundLines]

RoundOf(pre, r, g) ==
    [phase |-> pre.phase, fs |-> pre.fs, open_ok |-> pre.open_ok,
     collections |-> pre.collections, impl_collections |-> pre.impl_collections,
     template |-> pre.lines.template, section |-> pre.lines.section,
     details |-> pre.lines.details, embed_ok |-> r.embed_ok, query_ok |-> r.query_ok,
     answer |-> r.answer, chat_ok |-> g.chat_ok, content |-> g.content]

\* a round that ends before retrieval consults neither the embedder, the
\* collection nor the chat model
EndsEarly(b, pre) ==
    generation_main(b, RoundOf(pre, NoRetrieval, NoGeneration)).context = Absent

AtPrompt == RoundEnds("prompt", Absent)

GenerationInit == cli = AtPrompt

\* one round of the loop, from the phase prompt to its break, continue or draft
GenerationRound ==
    /\ program = "generation"
    /\ cli = AtPrompt
    /\ \E pre \in PreRounds :
        IF EndsEarly(settings, pre)
        THEN cli' = generation_main(settings, RoundOf(pre, NoRetrieval, NoGeneration))
        ELSE \E r \in Retrievals, g \in Generations :
               cli' = generation_main(settings, RoundOf(pre, r, g))
    /\ UNCHANGED <<program, settings, request, response, qa_vars, calc, ui>>

\* lines 213-215 after a draft, or the continue of a skipped round: the next round
\* starts, or the loop is left; the locals of the round are dead
NextRound ==
    /\ program = "generation"
    /\ cli.pc \in {"skipped", "printed"}
    /\ \E again \in {"", "q"} :
         cli' = IF cli.pc = "printed" /\ again = "q"
                THEN RoundEnds("exit", Absent) ELSE AtPrompt
    /\ UNCHANGED <<program, settings, request, response, qa_vars, calc, ui>>

----------------------------------------------------------------------------
(* qa.py: start-up *)

\* an embedding dimension that is not known (Python's None)
NoneDim == 0 - 1

\* widths of stored and of computed vectors
Dims == {768, 1024}

\* c.get(limit=1, include=["embeddings"]): raises, has no "embeddings", has an
\* empty list, or has one vector of dim numbers
Peeks ==
    {[kind |-> k, dim |-> 0] : k \in {"raise", "none", "empty"}}
    \cup {[kind |-> "vector", dim |-> d] : d \in Dims}

probe_index(peek) == IF peek.kind = "vector" THEN peek.dim ELSE NoneDim

\* sbert.encode(["test"]): raises, or returns a vector of dim numbers
Probes ==
    {[ok |-> FALSE, dim |-> 0]} \cup {[ok |-> TRUE, dim |-> d] : d \in Dims}

\* a check that takes an unknown dimension for a mismatch
check_dim_strict(emb_dim, model_dim) ==
    IF emb_dim # model_dim THEN "exit" ELSE "ok"

\* check_dim: "skip" (with a warning), "exit" (sys.exit(1)) or "ok"
check_dim(emb_dim, model_dim) ==
    IF emb_dim = NoneDim THEN "skip"
    ELSE IF emb_dim # model_dim THEN "exit"
    ELSE "ok"

NoFatal == [why |-> "", names |-> "", warned |-> {}]

\* lines 85-112: probe both collections, probe the model, check both dimensions
Validate(peek_eplc, peek_hhs, probe) ==
    LET emb_dim_eplc == probe_index(peek_eplc)
        emb_dim_hhs == probe_index(peek_hhs)
        found == [eplc |-> emb_dim_eplc, hhs |-> emb_dim_hhs,
                  model |-> IF probe.ok THEN probe.dim ELSE NoneDim]
        c1 == check_dim(emb_dim_eplc, probe.dim)
        c2 == check_dim(emb_dim_hhs, probe.dim)
        w1 == IF c1 = "skip" THEN {"EPLCFramework_db"} ELSE {}
        w2 == IF c2 = "skip" THEN {"HHS_db"} ELSE {}
    IN  IF ~probe.ok
        THEN [dims |-> found, pc |-> "exit",
              fatal |-> [why |-> "error while validating embedding dim", names |-> "",
                         warned |-> {}]]
        ELSE IF c1 = "exit"
        THEN [dims |-> found, pc |-> "exit",
              fatal |-> [why |-> "Embedding dim mismatch", names |-> "EPLCFramework_db",
                         warned |-> {}]]
        ELSE IF c2 = "exit"
        THEN [dims |-> found, pc |-> "exit",
              fatal |-> [why |-> "Embedding dim mismatch", names |-> "HHS_db",
                         warned |-> w1]]
        ELSE [dims |-> found, pc |-> "main",
              fatal |-> [why |-> "", names |-> "", warned |-> w1 \cup w2]]

NoDims == [eplc |-> NoneDim, hhs |-> NoneDim, model |-> NoneDim]

\* get_single_collection: the one collection of a database, or a RuntimeError
get_single_collection(cols, label) ==
    IF cols = <<>>
    THEN [raised |-> TRUE, why |-> "No collections found in DB", names |-> label]
    ELSE IF Len(cols) > 1
    THEN [raised |-> TRUE, why |-> "Multiple collections found in DB", names |-> label]
    ELSE [raised |-> FALSE, why |-> "", names |-> cols[1]]

\* the module's top-level code, lines 59-112
Startup ==
    /\ qa_pc = "import"
    /\ \E cols_eplc \in CollectionLists, cols_hhs \in CollectionLists,
          peek_eplc \in Peeks, peek_hhs \in Peeks, probe \in Probes :
         LET coll_eplc == get_single_collection(cols_eplc, "EPLCFramework_db")
             coll_hhs == get_single_collection(cols_hhs, "HHS_db")
             v == Validate(peek_eplc, peek_hhs, probe)
         IN  IF coll_eplc.raised \/ coll_hhs.raised
             THEN LET c == IF coll_eplc.raised THEN coll_eplc ELSE coll_hhs
                  IN  /\ qa_pc' = "crash"
                      /\ qa_fatal' = [why |-> c.why, names |-> c.names, warned |-> {}]
                      /\ dims' = dims
             ELSE /\ dims' = v.dims
                  /\ qa_pc' = v.pc
                  /\ qa_fatal' = v.fatal
    /\ UNCHANGED <<q, ids, docs, dists, qa_calls, qa_out, backend_vars, calc, ui>>

----------------------------------------------------------------------------
(* qa.py: retrieval *)

\* TOP_K, the k of every retrieval
TOP_K == 2

\* distances the two collections report to the QA loop: 0.1, 0.2 and 0.9, the last
\* one a similarity of 0.1, below the default floor
QaDistValues == {1000, 2000, 9000}

Sources == <<"EPLC", "HHS">>

\* the id and the document a collection returns at rank i
IdAt(src, i) == src \o <<"-1", "-2", "-3", "-4">>[i]
TextAt(src, i) == src \o <<" passage 1", " passage 2", " passage 3", " passage 4">>[i]

IsAscending(dd) == \A i \in 1..(Len(dd) - 1) : dd[i] <= dd[i + 1]

\* collection.query(n_results=k): raises, or up to k hits, nearest first
NearestAnswers(k) ==
    {[ok |-> FALSE, dists |-> <<>>]}
    \cup {[ok |-> TRUE, dists |-> dd] : dd \in {x \in SeqsUpTo(QaDistValues, k) : IsAscending(x)}}

\* for id_, doc_, dist_ in zip(ids, docs, dists): combined.append((id_, doc_, dist_, src))
Tagged(src, dd) ==
    [i \in 1..Len(dd) |-> [id |-> IdAt(src, i), doc |-> TextAt(src, i),
                           dist |-> dd[i], src |-> src]]

\* a sort that is not stable: x goes in front of the elements with its own key
InsertInFront(sorted, x) ==
    LET n == Cardinality({i \in 1..Len(sorted) : sorted[i].dist < x.dist})
    IN  SubSeq(sorted, 1, n) \o <<x>> \o SubSeq(sorted, n + 1, Len(sorted))

\* one step of list.sort: x goes behind every element whose key is not larger
InsertBehind(sorted, x) ==
    LET n == Cardinality({i \in 1..Len(sorted) : sorted[i].dist <= x.dist})
    IN  SubSeq(sorted, 1, n) \o <<x>> \o SubSeq(sorted, n + 1, Len(sorted))

\* a merge that leaves the hits in the order the sources were asked
sort_never(c) == c

\* combined.sort(key=lambda x: x[2]): a stable sort
RECURSIVE sort_by_dist(_)
sort_by_dist(c) ==
    IF c = <<>> THEN <<>>
    ELSE InsertBehind(sort_by_dist(SubSeq(c, 1, Len(c) - 1)), c[Len(c)])

\* a merge that forgets to cut the list
TruncateNever(c, k) == c

\* combined[:k]
Truncate(c, k) == SubSeq(c, 1, IF Len(c) < k THEN Len(c) ELSE k)

Column(c, f) == [i \in 1..Len(c) |-> c[i][f]]

\* one entry of the call log: the function or collaborator called, the collection
\* and the text it was called with, whether it returned, and the ids and distances
\* it returned
CallOf(fn, coll, text, ok, rids, rdists) ==
    [fn |-> fn, coll |-> coll, text |-> text, ok |-> ok, ids |-> rids, dists |-> rdists]

\* a retrieval that embeds the query again for every collection
retrieve_embed_per_source(query, k, embed_ok, eplc, hhs) ==
    LET text == "query: " \o query
        encode == CallOf("encode", "", text, embed_ok, <<>>, <<>>)
        query_eplc == CallOf("query", "EPLC", text, eplc.ok,
                             Column(Tagged("EPLC", eplc.dists), "id"), eplc.dists)
        query_hhs == CallOf("query", "HHS", text, hhs.ok,
                            Column(Tagged("HHS", hhs.dists), "id"), hhs.dists)
        combined == Tagged("EPLC", eplc.dists) \o Tagged("HHS", hhs.dists)
        top == Truncate(sort_by_dist(combined), k)
        nothing == [raised |-> TRUE, ids |-> <<>>, docs |-> <<>>, dists |-> <<>>]
    IN  IF ~embed_ok THEN nothing @@ [calls |-> <<encode>>]
        ELSE IF ~eplc.ok THEN nothing @@ [calls |-> <<encode, query_eplc>>]
        ELSE IF ~hhs.ok THEN nothing @@ [calls |-> <<encode, query_eplc, encode, query_hhs>>]
        ELSE IF combined = <<>>
        THEN [raised |-> FALSE, ids |-> <<>>, docs |-> <<>>, dists |-> <<>>,
              calls |-> <<encode, query_eplc, encode, query_hhs>>]
        ELSE [raised |-> FALSE, ids |-> Column(top, "id"), docs |-> Column(top, "doc"),
              dists |-> Column(top, "dist"),
              calls |-> <<encode, query_eplc, encode, query_hhs>>]

\* retrieve(query, k): (ids, docs, dists), or the exception that leaves it
retrieve(query, k, embed_ok, eplc, hhs) ==
    LET text == "query: " \o query
        encode == CallOf("encode", "", text, embed_ok, <<>>, <<>>)
        query_eplc == CallOf("query", "EPLC", text, eplc.ok,
                             Column(Tagged("EPLC", eplc.dists), "id"), eplc.dists)
        query_hhs == CallOf("query", "HHS", text, hhs.ok,
                            Column(Tagged("HHS", hhs.dists), "id"), hhs.dists)
        combined == Tagged("EPLC", eplc.dists) \o Tagged("HHS", hhs.dists)
        top == Truncate(sort_by_dist(combined), k)
        nothing == [raised |-> TRUE, ids |-> <<>>, docs |-> <<>>, dists |-> <<>>]
    IN  IF ~embed_ok THEN nothing @@ [calls |-> <<encode>>]
        ELSE IF ~eplc.ok THEN nothing @@ [calls |-> <<encode, query_eplc>>]
        ELSE IF ~hhs.ok THEN nothing @@ [calls |-> <<encode, query_eplc, query_hhs>>]
        ELSE IF combined = <<>>
        THEN [raised |-> FALSE, ids |-> <<>>, docs |-> <<>>, dists |-> <<>>,
              calls |-> <<encode, query_eplc, query_hhs>>]
        ELSE [raised |-> FALSE, ids |-> Column(top, "id"), docs |-> Column(top, "doc"),
              dists |-> Column(top, "dist"),
              calls |-> <<encode, query_eplc, query_hhs>>]

\* coll.get(where_document={"$contains": substring}, limit=k): raises, or up to k matches
ExactAnswers(k) ==
    {[ok |-> FALSE, n |-> 0]} \cup {[ok |-> TRUE, n |-> n] : n \in 0..k}

\* the matches one collection adds to the combined lists
ExactOf(src, a) ==
    IF a.ok THEN [i \in 1..a.n |-> [id |-> IdAt(src, i), doc |-> TextAt(src, i),
                                    dist |-> 0, src |-> src]]
    ELSE <<>>

\* an exact retrieval that gives up when one collection fails
retrieve_exact_fail_fast(substring, k, eplc, hhs) ==
    LET failed == ~eplc.ok \/ ~hhs.ok
        combined == IF failed THEN <<>> ELSE ExactOf("EPLC", eplc) \o ExactOf("HHS", hhs)
        top == IF Len(combined) > k THEN SubSeq(combined, 1, k) ELSE combined
    IN  [ids |-> Column(top, "id"), docs |-> Column(top, "doc"),
         dists |-> Column(top, "dist"),
         calls |-> <<CallOf("get", "EPLC", substring, eplc.ok,
                            Column(ExactOf("EPLC", eplc), "id"), <<>>),
                     CallOf("get", "HHS", substring, hhs.ok,
                            Column(ExactOf("HHS", hhs), "id"), <<>>)>>]

\* an exact retrieval that cuts ids and docs to k but not the distances
retrieve_exact_dists_uncut(substring, k, eplc, hhs) ==
    LET combined == ExactOf("EPLC", eplc) \o ExactOf("HHS", hhs)
        top == IF Len(combined) > k THEN SubSeq(combined, 1, k) ELSE combined
    IN  [ids |-> Column(top, "id"), docs |-> Column(top, "doc"),
         dists |-> Column(combined, "dist"),
         calls |-> <<CallOf("get", "EPLC", substring, eplc.ok,
                            Column(ExactOf("EPLC", eplc), "id"), <<>>),
                     CallOf("get", "HHS", substring, hhs.ok,
                            Column(ExactOf("HHS", hhs), "id"), <<>>)>>]

\* an exact retrieval that lists the HHS matches first
retrieve_exact_hhs_first(substring, k, eplc, hhs) ==
    LET combined == ExactOf("HHS", hhs) \o ExactOf("EPLC", eplc)
        top == IF Len(combined) > k THEN SubSeq(combined, 1, k) ELSE combined
    IN  [ids |-> Column(top, "id"), docs |-> Column(top, "doc"),
         dists |-> Column(top, "dist"),
         calls |-> <<CallOf("get", "EPLC", substring, eplc.ok,
                            Column(ExactOf("EPLC", eplc), "id"), <<>>),
                     CallOf("get", "HHS", substring, hhs.ok,
                            Column(ExactOf("HHS", hhs), "id"), <<>>)>>]

\* retrieve_exact(substring, k): (ids, docs, dists)
retrieve_exact(substring, k, eplc, hhs) ==
    LET combined == ExactOf("EPLC", eplc) \o ExactOf("HHS", hhs)
        top == IF Len(combined) > k THEN SubSeq(combined, 1, k) ELSE combined
    IN  [ids |-> Column(top, "id"), docs |-> Column(top, "doc"),
         dists |-> Column(top, "dist"),
         calls |-> <<CallOf("get", "EPLC", substring, eplc.ok,
                            Column(ExactOf("EPLC", eplc), "id"), <<>>),
                     CallOf("get", "HHS", substring, hhs.ok,
                            Column(ExactOf("HHS", hhs), "id"), <<>>)>>]

----------------------------------------------------------------------------
(* qa.py: prompt and answer *)

\* line 204: context = "\n\n---\n\n".join(docs)
make_prompt_context(ds) == str_join(CONTEXT_SEP, ds)

make_prompt(question, ds) ==
    "CONTEXT:\n" \o make_prompt_context(ds) \o "\n\nQUESTION:\n" \o question \o "\n"

\* ask_openai: the stripped content, or the text made of the exception
ask_openai(chat_ok, content) ==
    IF chat_ok THEN strip(IF content = NoneVal THEN "" ELSE content)
    ELSE "[openai error] the completion failed"

NOT_SPECIFIED == "Not specified in the provided context."

----------------------------------------------------------------------------
(* qa.py: main *)

\* what input() returns, stripped; EndOfInput is EOFError or KeyboardInterrupt
EndOfInput == "<EOF>"
Lines == {"", "exit", "Quit", "What is EPLC?", "gate review", EndOfInput}

\* q.lower() on the lines of Lines
str_lower(s) ==
    CASE s = "Quit" -> "quit"
      [] s = "What is EPLC?" -> "what is eplc?"
      [] OTHER -> s

NoOutput == [answer |-> Absent, citations |-> <<>>]

QaInit ==
    /\ qa_pc = "import"
    /\ dims = NoDims
    /\ qa_fatal = NoFatal
    /\ q = ""
    /\ ids = <<>>
    /\ docs = <<>>
    /\ dists = <<>>
    /\ qa_calls = <<>>
    /\ qa_out = NoOutput

\* main, lines 223-232: both collections must answer count()
MainStart ==
    /\ qa_pc = "main"
    /\ \E count_ok \in BOOLEAN :
         IF count_ok
         THEN qa_pc' = "prompt" /\ qa_fatal' = qa_fatal
         ELSE /\ qa_pc' = "exit"
              /\ qa_fatal' = [qa_fatal EXCEPT !.why = "Collection error"]
    /\ UNCHANGED <<dims, q, ids, docs, dists, qa_calls, qa_out, backend_vars, calc, ui>>

\* main has returned: its locals are gone
Bye ==
    /\ qa_pc' = "bye"
    /\ q' = ""
    /\ ids' = <<>>
    /\ docs' = <<>>
    /\ dists' = <<>>
    /\ qa_calls' = <<>>
    /\ qa_out' = NoOutput

\* lines 235-245: read a question, or leave the loop
ReadQuestion ==
    /\ qa_pc = "prompt"
    /\ \E line \in Lines :
         IF line = EndOfInput \/ line = "" \/ str_lower(line) \in {"exit", "quit"}
         THEN Bye
         ELSE /\ q' = line
              /\ qa_pc' = "exact"
              /\ qa_calls' = <<>>
              /\ qa_out' = NoOutput
              /\ UNCHANGED <<ids, docs, dists>>
    /\ UNCHANGED <<dims, qa_fatal, backend_vars, calc, ui>>

\* line 247: ids, docs, dists = retrieve_exact(q, TOP_K)
RetrieveExact ==
    /\ qa_pc = "exact"
    /\ \E eplc \in ExactAnswers(TOP_K), hhs \in ExactAnswers(TOP_K) :
         LET r == retrieve_exact(q, TOP_K, eplc, hhs)
         IN  /\ ids' = r.ids
             /\ docs' = r.docs
             /\ dists' = r.dists
             /\ qa_calls' = qa_calls \o r.calls
                             \o <<CallOf("retrieve_exact", "", q, TRUE, r.ids, r.dists)>>
    /\ qa_pc' = "fallback"
    /\ UNCHANGED <<dims, qa_fatal, q, qa_out, backend_vars, calc, ui>>

\* a loop that runs the semantic retrieval whatever the exact one returned
FallbackAlways ==
    /\ qa_pc = "fallback"
    /\ \E embed_ok \in BOOLEAN, eplc \in NearestAnswers(TOP_K),
          hhs \in NearestAnswers(TOP_K) :
         LET r == retrieve(q, TOP_K, embed_ok, eplc, hhs)
         IN  /\ qa_calls' = qa_calls \o r.calls
                           \o <<CallOf("retrieve", "", q, ~r.raised, r.ids, r.dists)>>
             /\ IF r.raised
                THEN /\ qa_pc' = "crash"
                     /\ qa_fatal' = [qa_fatal EXCEPT !.why = "retrieve raised"]
                     /\ UNCHANGED <<ids, docs, dists>>
                ELSE /\ qa_pc' = "answer"
                     /\ qa_fatal' = qa_fatal
                     /\ ids' = r.ids
                     /\ docs' = r.docs
                     /\ dists' = r.dists
    /\ UNCHANGED <<dims, q, qa_out, backend_vars, calc, ui>>

\* lines 248-250: if not docs: ids, docs, dists = retrieve(q, TOP_K)
Fallback ==
    /\ qa_pc = "fallback"
    /\ IF docs = <<>>
       THEN \E embed_ok \in BOOLEAN, eplc \in NearestAnswers(TOP_K),
               hhs \in NearestAnswers(TOP_K) :
              LET r == retrieve(q, TOP_K, embed_ok, eplc, hhs)
              IN  /\ qa_calls' = qa_calls \o r.calls
                                \o <<CallOf("retrieve", "", q, ~r.raised, r.ids, r.dists)>>
                  /\ IF r.raised
                     THEN /\ qa_pc' = "crash"
                          /\ qa_fatal' = [qa_fatal EXCEPT !.why = "retrieve raised"]
                          /\ UNCHANGED <<ids, docs, dists>>
                     ELSE /\ qa_pc' = "answer"
                          /\ qa_fatal' = qa_fatal
                          /\ ids' = r.ids
                          /\ docs' = r.docs
                          /\ dists' = r.dists
       ELSE /\ qa_pc' = "answer"
            /\ UNCHANGED <<ids, docs, dists, qa_calls, qa_fatal>>
    /\ UNCHANGED <<dims, q, qa_out, backend_vars, calc, ui>>

\* lines 251-258: answer from the documents, or say that there are none
Answer ==
    /\ qa_pc = "answer"
    /\ IF docs = <<>>
       THEN /\ qa_out' = [answer |-> NOT_SPECIFIED, citations |-> <<>>]
            /\ qa_calls' = qa_calls
       ELSE \E g \in Generations :
              LET prompt == make_prompt(q, docs)
                  answer == ask_openai(g.chat_ok, g.content)
              IN  /\ qa_out' = [answer |-> IF answer # "" THEN answer ELSE NOT_SPECIFIED,
                                citations |-> ids]
                  /\ qa_calls' = qa_calls
                                \o <<CallOf("chat", "", prompt, g.chat_ok, <<>>, <<>>)>>
    /\ qa_pc' = "prompt"
    /\ UNCHANGED <<dims, qa_fatal, q, ids, docs, dists, backend_vars, calc, ui>>

----------------------------------------------------------------------------
(* The helper functions, called on their own *)

\* float("nan"), which is no similarity: similarities are 1.0 - distance
NaN == 0 - 10 * One

\* pretty_sim of qa.py, lines 162-166; nothing in src/ calls it
pretty_sim(d) == IF d = NoneDist THEN NaN ELSE One - d

\* texts of hits handed to a context assembler
Texts == {DocAt(i) : i \in 1..MaxHits}

\* a call: the function, its arguments (docs, dists, floor), what it returned (out,
\* sim) and what a second call on its result returned (again)
Calc(fn, ds, dd, floor, out, again, sim) ==
    [fn |-> fn, docs |-> ds, dists |-> dd, floor |-> floor, out |-> out,
     again |-> again, sim |-> sim]

NoCalc == Calc("none", <<>>, <<>>, 0, Absent, <<>>, 0)

FunctionsInit == calc = NoCalc

Assemblers == {"EPLCBackend.join_context", "join_context", "make_prompt"}

\* the context each of the three files builds from the documents ds
Assemble(fn, ds) ==
    IF fn = "EPLCBackend.join_context" THEN join_context(ds)
    ELSE IF fn = "join_context" THEN gen_join_context(ds)
    ELSE make_prompt_context(ds)

AssembleContext ==
    /\ program = "functions"
    /\ calc = NoCalc
    /\ \E fn \in Assemblers, ds \in SeqsUpTo(Texts, MaxHits) :
         calc' = Calc(fn, ds, <<>>, 0, Assemble(fn, ds), <<>>, 0)
    /\ UNCHANGED <<backend_vars, qa_vars, ui>>

Filters == {"EPLCBackend.filter_by_threshold", "filter_by_threshold"}

Filter(fn, ds, dd, floor) ==
    IF fn = "EPLCBackend.filter_by_threshold" THEN filter_by_threshold(ds, dd, floor)
    ELSE gen_filter_by_threshold(ds, dd, floor)

\* the distance of the hit whose document is doc
DistOf(doc, ds, dd) == dd[CHOOSE i \in DOMAIN ds : ds[i] = doc]

\* the filter called on hits, and called again on the hits it kept, each with its
\* own distance
FilterTwice ==
    /\ program = "functions"
    /\ calc = NoCalc
    /\ \E fn \in Filters, floor \in SimFilters, dd \in QueryAnswers :
         LET ds == [i \in 1..Len(dd) |-> DocAt(i)]
             kept == Filter(fn, ds, dd, floor)
             kept_dists == [j \in 1..Len(kept) |-> DistOf(kept[j], ds, dd)]
         IN  calc' = Calc(fn, ds, dd, floor, kept, Filter(fn, kept, kept_dists, floor), 0)
    /\ UNCHANGED <<backend_vars, qa_vars, ui>>

Converters == {"EPLCBackend.dist_to_sim", "Retriever.dist_to_sim", "pretty_sim"}

Convert(fn, d) ==
    IF fn = "EPLCBackend.dist_to_sim" THEN dist_to_sim(d)
    ELSE IF fn = "Retriever.dist_to_sim" THEN Retriever_dist_to_sim(d)
    ELSE pretty_sim(d)

ConvertDistance ==
    /\ program = "functions"
    /\ calc = NoCalc
    /\ \E fn \in Converters, d \in DistValues \cup {NoneDist} :
         calc' = Calc(fn, <<>>, <<d>>, 0, Absent, <<>>, Convert(fn, d))
    /\ UNCHANGED <<backend_vars, qa_vars, ui>>

\* what a collection holds for a query: the distances of its documents, nearest
\* first; it may hold more than the k the caller asks for
Holdings(k) == {x \in SeqsUpTo(QaDistValues, k + 1) : IsAscending(x)}

\* collection.query(n_results=k) on that collection: its k nearest, nearest first
Nearest(held, k) == [ok |-> TRUE, dists |-> SubSeq(held, 1, IF Len(held) < k THEN Len(held) ELSE k)]

\* retrieve("What is EPLC?", TOP_K) over two collections of known contents
MergeTopK ==
    /\ program = "functions"
    /\ calc = NoCalc
    /\ \E eplc \in Holdings(TOP_K), hhs \in Holdings(TOP_K) :
         LET r == retrieve("What is EPLC?", TOP_K, TRUE,
                           Nearest(eplc, TOP_K), Nearest(hhs, TOP_K))
         IN  calc' = [fn |-> "retrieve", k |-> TOP_K,
                      contents |-> [EPLC |-> eplc, HHS |-> hhs],
                      ids |-> r.ids, docs |-> r.docs, dists |-> r.dists]
    /\ UNCHANGED <<backend_vars, qa_vars, ui>>

\* the caller has used the value
Discard ==
    /\ program = "functions"
    /\ calc # NoCalc
    /\ calc' = NoCalc
    /\ UNCHANGED <<backend_vars, qa_vars, ui>>

----------------------------------------------------------------------------
(* ibm.py: the data folder, the session state and the pages *)

\* selected_section = None, and the radio list when no option is clicked
NoneIndex == 0 - 1

\* src/data as the model takes it: folder -> file -> the items of its JSON list.
\* One file lists its items out of order, one holds an empty list.
DataDir ==
    [design |->
       [Product_Design |->
          <<[section_number |-> "1.1", section_title |-> "Purpose",
             text |-> "[Describe the purpose of the product.]"],
            [section_number |-> "1", section_title |-> "Introduction", text |-> ""]>>,
        Test_Plan |-> <<>>],
     requirement |->
       [Requirements_Definition |->
          <<[section_number |-> "1", section_title |-> "Introduction", text |-> ""],
            [section_number |-> "1.1", section_title |-> "Scope",
             text |-> "[State what the requirements cover.]"],
            [section_number |-> "1.2", section_title |-> "Audience",
             text |-> "Project managers and reviewers."]>>]]

\* scan_data_structure() on that folder: the capitalized folder name -> the
\* folder and, for each file "CDC_UP_<stem>_embedding.json", the title-cased stem
\* with "_" replaced by " " -> the file
PHASE_DOC_MAP ==
    [Design |->
       [folder |-> "design",
        docs |-> ("Product Design" :> "Product_Design") @@ ("Test Plan" :> "Test_Plan")],
     Requirement |->
       [folder |-> "requirement",
        docs |-> ("Requirements Definition" :> "Requirements_Definition")]]

\* list(phase_info.get("docs", {}).keys()) of step 1
doc_names(phase) ==
    IF phase \in DOMAIN PHASE_DOC_MAP THEN DOMAIN PHASE_DOC_MAP[phase].docs ELSE {}

\* sort_key: the parts of the section number between the dots, as integers
sort_key(num) ==
    CASE num = "1" -> <<1>>
      [] num = "1.1" -> <<1, 1>>
      [] num = "1.2" -> <<1, 2>>
      [] OTHER -> <<>>

\* list comparison of two keys
RECURSIVE KeyLess(_, _)
KeyLess(a, b) ==
    IF a = <<>> THEN b # <<>>
    ELSE IF b = <<>> THEN FALSE
    ELSE IF Head(a) # Head(b) THEN Head(a) < Head(b)
    ELSE KeyLess(Tail(a), Tail(b))

RECURSIVE InsertSection(_, _)
InsertSection(sorted, x) ==
    IF sorted = <<>> THEN <<x>>
    ELSE IF KeyLess(sort_key(x.section_number), sort_key(Head(sorted).section_number))
    THEN <<x>> \o sorted
    ELSE <<Head(sorted)>> \o InsertSection(Tail(sorted), x)

\* sections.sort(key=sort_key), a stable sort
RECURSIVE sort_sections(_)
sort_sections(items) ==
    IF items = <<>> THEN <<>>
    ELSE InsertSection(sort_sections(SubSeq(items, 1, Len(items) - 1)), items[Len(items)])

\* load_document_sections: [] for an unknown phase or document, else the
\* sorted sections of the file
load_document_sections(phase, document) ==
    IF phase \notin DOMAIN PHASE_DOC_MAP THEN <<>>
    ELSE IF document \notin DOMAIN PHASE_DOC_MAP[phase].docs THEN <<>>
    ELSE sort_sections(DataDir[PHASE_DOC_MAP[phase].folder][PHASE_DOC_MAP[phase].docs[document]])

\* the labels of the radio list, indented by the depth of the section number
options(sections) ==
    [i \in 1..Len(sections) |->
       LET level == Len(sort_key(sections[i].section_number)) - 1
           label == sections[i].section_number \o " " \o sections[i].section_title
       IN  IF level = 0 THEN label
           ELSE IF level = 1 THEN "   > " \o label
           ELSE "      * " \o label]

\* dict[key] = value on the generated contents
Put(d, key, value) == [k \in DOMAIN d \cup {key} |-> IF k = key THEN value ELSE d[k]]

\* what a run of the script leaves on the screen: the page, the exception that
\* ended the run if one did, on step 1 whether 'Select Section' is drawn enabled,
\* and on step 3 the subscript that was read, the key of the section and the
\* generated content shown with its download name
Screen(view) ==
    [view |-> view, error |-> "none", ready |-> FALSE, read |-> NoneIndex,
     section_key |-> Absent, section_output |-> "", file_name |-> Absent]

\* the session state after the block "if ... not in st.session_state"; the
\* fields backend, page, generated_for and submitted are not in
\* st.session_state: the cached get_backend() (TRUE when it returned an
\* EPLCBackend), the screen, the arguments each stored content was generated
\* with, and the questions submitted since the last restart
Session(backend) ==
    [backend |-> backend,
     current_page |-> "learn_how",
     current_question |-> "",
     current_answer |-> "",
     qa_history |-> <<>>,
     create_doc_step |-> 1,
     selected_phase |-> NoneVal,
     selected_document |-> NoneVal,
     generated_draft |-> "",
     user_details |-> "",
     selected_section |-> NoneIndex,
     document_sections |-> <<>>,
     section_generated_content |-> <<>>,
     page |-> Screen("learn_how"),
     generated_for |-> <<>>,
     submitted |-> <<>>]

\* what the collaborators of the backend do during a call made from a page:
\* everything works, or the database folders are missing
Worlds(op, phase) ==
    {[op |-> op, phase |-> phase, fs |-> fs, open_ok |-> TRUE,
      collections |-> <<"c1">>, embed_ok |-> TRUE, query_ok |-> TRUE, answer |-> <<0>>,
      chat_ok |-> TRUE, content |-> "Generated text."] :
       fs \in {{PHASE_PATHS[p] : p \in DOMAIN PHASE_PATHS}, {}}}

\* what backend.generate_document_section returns for the selected phase
Drafts(b, phase) ==
    {generate_document_section(b, e).ret : e \in Worlds("generate_document_section", phase)}

\* the three suggestion buttons
suggestions ==
    <<"What is the EPLC Initial Phase?",
      "Show me a CDC UP template for planning.",
      "Explain the difference between initiation and planning phases.">>

\* questions one session submits before it restarts
MaxQuestions == 2

\* a phase only, without a document, is enough for 'Select Section'
ready_phase_only(s) == s.selected_phase # NoneVal

\* ready = bool(selected_phase and selected_document): 'Select Section' is
\* disabled unless ready
ready(s) ==
    /\ s.selected_phase \notin {NoneVal, ""}
    /\ s.selected_document \notin {NoneVal, ""}

\* show_create_doc_step3 down to the radio list: the sections are loaded if the
\* list is empty, and the radio list, when there is one, sets selected_section
\* to the option picked (pick) or kept (current_idx)
step3_sections(s, pick) ==
    LET loaded == IF s.document_sections = <<>>
                  THEN load_document_sections(s.selected_phase, s.selected_document)
                  ELSE s.document_sections
        opts == options(loaded)
        current_idx == IF s.selected_section # NoneIndex /\ s.selected_section < Len(opts)
                       THEN s.selected_section ELSE 0
        selected_label == opts[(IF pick = NoneIndex THEN current_idx ELSE pick) + 1]
    IN  IF loaded = <<>>
        THEN [s EXCEPT !.document_sections = loaded]
        ELSE [s EXCEPT !.document_sections = loaded,
                       !.selected_section =
                          (CHOOSE i \in 1..Len(opts) :
                             /\ opts[i] = selected_label
                             /\ \A j \in 1..(i - 1) : opts[j] # selected_label) - 1]

\* section_generated_content[section_key] = result["draft"], with the
\* arguments of the call that produced the draft
stored(s, data, draft) ==
    [s EXCEPT
       !.generated_draft = draft,
       !.section_generated_content = Put(@, data.section_number, draft),
       !.generated_for =
          Put(@, data.section_number,
              <<s.selected_phase, s.selected_document, data.section_title>>)]

\* the 'Generate Section' block: a warning without details, an error without
\* backend, else the call and, on success, the draft stored under the section number
generate_clicked(s, data, details, result) ==
    IF details = "" THEN s
    ELSE IF ~s.backend THEN s
    ELSE IF result.success
    THEN [stored(s, data, result.draft) EXCEPT !.user_details = details]
    ELSE s

\* the right column of step 3: document_sections[selected_section], the
\* generate button, then the stored content of the section number
step3_content(s, click, details, result) ==
    LET i == s.selected_section IN
    IF i = NoneIndex
    THEN [s EXCEPT !.page = [Screen("step3") EXCEPT !.error = "TypeError", !.read = i]]
    ELSE IF i >= Len(s.document_sections)
    THEN [s EXCEPT !.page = [Screen("step3") EXCEPT !.error = "IndexError", !.read = i]]
    ELSE LET selected_section_data == s.document_sections[i + 1]
             section_key == selected_section_data.section_number
             s1 == IF click = "generate"
                   THEN generate_clicked(s, selected_section_data, details, result)
                   ELSE s
             section_output == IF section_key \in DOMAIN s1.section_generated_content
                               THEN s1.section_generated_content[section_key]
                               ELSE ""
         IN  [s1 EXCEPT !.page =
                [view |-> "step3", error |-> "none", ready |-> FALSE, read |-> i,
                 section_key |-> section_key,
                 section_output |-> section_output,
                 file_name |->
                    IF section_output = "" THEN Absent
                    ELSE s1.selected_document \o "_" \o section_key \o "_"
                         \o selected_section_data.section_title \o ".txt"]]

\* show_create_doc_step3 in a run without a click
show_create_doc_step3(s) ==
    CHOOSE shown \in {step3_content(s1, "none", "", NoResponse.ret) :
                        s1 \in {step3_sections(s, NoneIndex)}} : TRUE

\* main(): a run of the script in which no widget fires
main(s) ==
    IF s.current_page = "create_document"
    THEN IF s.create_doc_step = 1
         THEN [s EXCEPT !.page = [Screen("step1") EXCEPT !.ready = ready(s)]]
         ELSE IF s.create_doc_step = 3 THEN show_create_doc_step3(s)
         ELSE [s EXCEPT !.page = Screen("blank")]
    ELSE [s EXCEPT !.page = Screen(s.current_page)]

\* no browser session: the process is not the Streamlit application
UiInit == ui = [backend |-> FALSE]

\* the sidebar buttons, each followed by st.rerun()
SidebarLearn ==
    /\ program = "ibm"
    /\ \E s \in {[ui EXCEPT !.current_page = "learn_how"]} : ui' = main(s)
    /\ UNCHANGED <<backend_vars, qa_vars, calc>>

SidebarAsk ==
    /\ program = "ibm"
    /\ \E s \in {[ui EXCEPT !.current_page = "ask_question"]} : ui' = main(s)
    /\ UNCHANGED <<backend_vars, qa_vars, calc>>

SidebarCreate ==
    /\ program = "ibm"
    /\ \E s \in {[ui EXCEPT
                     !.current_page = "create_document", !.create_doc_step = 1]} : ui' = main(s)
    /\ UNCHANGED <<backend_vars, qa_vars, calc>>

\* the two buttons of the Learn page
LearnToAsk ==
    /\ program = "ibm"
    /\ ui.current_page = "learn_how"
    /\ \E s \in {[ui EXCEPT !.current_page = "ask_question"]} : ui' = main(s)
    /\ UNCHANGED <<backend_vars, qa_vars, calc>>

LearnToCreate ==
    /\ program = "ibm"
    /\ ui.current_page = "learn_how"
    /\ \E s \in {[ui EXCEPT
                     !.current_page = "create_document", !.create_doc_step = 1]} : ui' = main(s)
    /\ UNCHANGED <<backend_vars, qa_vars, calc>>

\* the history entry for the result of backend.answer_question(question); the
\* cross mark that starts the error messages is written [x]
history_entry(question, result) ==
    IF result.success
    THEN [question |-> question, answer |-> result.answer]
    ELSE [question |-> question, answer |-> "[x] Error: " \o result.error]

\* the first question, typed or from a suggestion button: an error message
\* without backend, else one entry appended
first_question_asked(s, question, result) ==
    IF ~s.backend THEN s
    ELSE [s EXCEPT !.qa_history = Append(@, history_entry(question, result))]

\* a follow-up: an entry is appended with or without backend
follow_up_asked(s, follow_up, result) ==
    IF ~s.backend
    THEN [s EXCEPT !.qa_history =
            Append(@, [question |-> follow_up,
                       answer |-> "[x] Backend not available. Please check your configuration."])]
    ELSE IF result.success
    THEN [s EXCEPT !.qa_history = Append(@, history_entry(follow_up, result)),
                   !.current_question = follow_up,
                   !.current_answer = result.answer]
    ELSE [s EXCEPT !.qa_history = Append(@, history_entry(follow_up, result))]

\* what backend.answer_question(question) returns when the page calls it
Results(b) == {answer_question(b, e).ret : e \in Worlds("answer_question", "implementation")}

\* st.chat_input("Ask a question...") of the page without history; the user
\* types the text of the first suggestion. The run
\* either reaches st.rerun(), or is stopped by a click made meanwhile on a widget
\* of the screen, at st.error or where the st.spinner block ends, which is
\* before the append: the session is then as it was and nothing is drawn
AskFirst ==
    /\ program = "ibm"
    /\ ui.current_page = "ask_question"
    /\ ui.qa_history = <<>>
    /\ Len(ui.submitted) < MaxQuestions
    /\ \E question \in {suggestions[1]}, result \in Results(settings) :
         \E s \in {first_question_asked([ui EXCEPT !.submitted = Append(@, question)], question, result)} :
            \/ ui' = main(s)
            \/ ui' = [ui EXCEPT !.submitted = Append(@, question)]
    /\ UNCHANGED <<backend_vars, qa_vars, calc>>

\* one of the suggestion buttons of the page without history; its run reaches
\* st.rerun() or is stopped before the append, as for the typed question
AskSuggestion ==
    /\ program = "ibm"
    /\ ui.current_page = "ask_question"
    /\ ui.qa_history = <<>>
    /\ Len(ui.submitted) < MaxQuestions
    /\ \E idx \in DOMAIN suggestions, result \in Results(settings) :
         \E s \in {first_question_asked([ui EXCEPT !.submitted = Append(@, suggestions[idx])],
                                         suggestions[idx], result)} :
            \/ ui' = main(s)
            \/ ui' = [ui EXCEPT !.submitted = Append(@, suggestions[idx])]
    /\ UNCHANGED <<backend_vars, qa_vars, calc>>

\* st.chat_input("Ask a follow-up...") under the history; its run reaches
\* st.rerun() or is stopped at st.error or where the st.spinner block ends, in
\* both cases before the append
AskFollowUp ==
    /\ program = "ibm"
    /\ ui.current_page = "ask_question"
    /\ ui.qa_history # <<>>
    /\ Len(ui.submitted) < MaxQuestions
    /\ \E follow_up \in {"What is EPLC?"}, result \in Results(settings) :
         \E s \in {follow_up_asked([ui EXCEPT !.submitted = Append(@, follow_up)], follow_up, result)} :
            \/ ui' = main(s)
            \/ ui' = [ui EXCEPT !.submitted = Append(@, follow_up)]
    /\ UNCHANGED <<backend_vars, qa_vars, calc>>

\* the Restart button, shown when there is a history
Restart ==
    /\ program = "ibm"
    /\ ui.current_page = "ask_question"
    /\ ui.qa_history # <<>>
    /\ \E s \in {[ui EXCEPT
                     !.qa_history = <<>>, !.current_question = "",
                     !.current_answer = "", !.submitted = <<>>]} : ui' = main(s)
    /\ UNCHANGED <<backend_vars, qa_vars, calc>>

\* a phase button of step 1
SelectPhase ==
    /\ program = "ibm"
    /\ ui.current_page = "create_document"
    /\ ui.create_doc_step = 1
    /\ \E phase \in DOMAIN PHASE_DOC_MAP :
         \E s \in {[ui EXCEPT
                       !.selected_phase = phase,
                       !.selected_document = NoneVal,
                       !.document_sections = <<>>]} : ui' = main(s)
    /\ UNCHANGED <<backend_vars, qa_vars, calc>>

\* a document button of step 2, shown for the documents of the selected phase
SelectDocument ==
    /\ program = "ibm"
    /\ ui.current_page = "create_document"
    /\ ui.create_doc_step = 1
    /\ ui.selected_phase # NoneVal
    /\ \E doc \in doc_names(ui.selected_phase) :
         \E s \in {[ui EXCEPT
                       !.selected_document = doc,
                       !.document_sections = load_document_sections(ui.selected_phase, doc)]} : ui' = main(s)
    /\ UNCHANGED <<backend_vars, qa_vars, calc>>

\* the run of a document button stopped inside the call of the cached
\* load_document_sections by a click made meanwhile on a widget of the screen:
\* the document is written, the sections are not, nothing is drawn, and the
\* next run serves that click
SelectDocumentStopped ==
    /\ program = "ibm"
    /\ ui.current_page = "create_document"
    /\ ui.create_doc_step = 1
    /\ ui.selected_phase # NoneVal
    /\ \E doc \in doc_names(ui.selected_phase) :
         ui' = [ui EXCEPT !.selected_document = doc]
    /\ UNCHANGED <<backend_vars, qa_vars, calc>>

\* the 'Select Section' button, which cannot be clicked while it is drawn
\* disabled and does not fire in a run that draws it disabled; the run ends in
\* st.rerun() with step 1 still on the screen
StartWriting ==
    /\ program = "ibm"
    /\ ui.current_page = "create_document"
    /\ ui.create_doc_step = 1
    /\ ui.page.ready
    /\ ready(ui)
    /\ ui' = [ui EXCEPT
                !.document_sections =
                   IF @ = <<>>
                   THEN load_document_sections(ui.selected_phase, ui.selected_document)
                   ELSE @,
                !.create_doc_step = 3]
    /\ UNCHANGED <<backend_vars, qa_vars, calc>>

\* the run that st.rerun() of 'Select Section' starts, when no sidebar button
\* was clicked meanwhile: it draws step 3
RunAfterStartWriting ==
    /\ program = "ibm"
    /\ ui.current_page = "create_document"
    /\ ui.create_doc_step = 3
    /\ ui.page.view = "step1"
    /\ ui' = main(ui)
    /\ UNCHANGED <<backend_vars, qa_vars, calc>>

\* the back arrow of step 3, drawn before the columns
Back ==
    /\ program = "ibm"
    /\ ui.current_page = "create_document"
    /\ ui.create_doc_step = 3
    /\ ui.page.view = "step3"
    /\ \E s \in {[ui EXCEPT
                     !.document_sections =
                        IF @ = <<>>
                        THEN load_document_sections(ui.selected_phase, ui.selected_document)
                        ELSE @,
                     !.create_doc_step = 1,
                     !.selected_section = NoneIndex]} : ui' = main(s)
    /\ UNCHANGED <<backend_vars, qa_vars, calc>>

\* an option of the radio list of step 3
PickSection ==
    /\ program = "ibm"
    /\ ui.current_page = "create_document"
    /\ ui.create_doc_step = 3
    /\ ui.page.view = "step3"
    /\ ui.document_sections # <<>>
    /\ \E pick \in 0..(Len(ui.document_sections) - 1) :
         \E s \in {step3_sections(ui, pick)} :
            ui' = step3_content(s, "none", "", NoResponse.ret)
    /\ UNCHANGED <<backend_vars, qa_vars, calc>>

\* the 'Generate Section' button, drawn when the run reaches the right column,
\* with the text area of the details empty or filled
Generate ==
    /\ program = "ibm"
    /\ ui.current_page = "create_document"
    /\ ui.create_doc_step = 3
    /\ ui.page.view = "step3"
    /\ ui.page.error = "none"
    /\ \E details \in {"", "A payroll product."}, result \in Drafts(settings, ui.selected_phase) :
         \E s \in {step3_sections(ui, NoneIndex)} :
            ui' = step3_content(s, "generate", details, result)
    /\ UNCHANGED <<backend_vars, qa_vars, calc>>

\* the 'Regenerate' button, drawn under a generated content: on success the
\* draft replaces the stored one and the script runs again
Regenerate ==
    /\ program = "ibm"
    /\ ui.current_page = "create_document"
    /\ ui.create_doc_step = 3
    /\ ui.page.view = "step3"
    /\ ui.page.error = "none"
    /\ ui.page.section_output # ""
    /\ \E result \in Drafts(settings, ui.selected_phase) :
         \E s \in {show_create_doc_step3(ui)} :
            IF s.backend /\ result.success
            THEN \E s1 \in {stored(s, s.document_sections[s.selected_section + 1],
                                    result.draft)} : ui' = main(s1)
            ELSE ui' = s
    /\ UNCHANGED <<backend_vars, qa_vars, calc>>

UiNext ==
    \/ SidebarLearn \/ SidebarAsk \/ SidebarCreate \/ LearnToAsk \/ LearnToCreate
    \/ AskFirst \/ AskSuggestion \/ AskFollowUp \/ Restart
    \/ SelectPhase \/ SelectDocument \/ SelectDocumentStopped
    \/ StartWriting \/ RunAfterStartWriting
    \/ Back \/ PickSection \/ Generate \/ Regenerate

----------------------------------------------------------------------------
(* Specifications *)

\* a process runs the backend or the drafting command line
Init ==
    /\ program \in {"backend_api", "generation"}
    /\ BackendInit
    /\ GenerationInit
    /\ QaInit
    /\ FunctionsInit
    /\ UiInit

BackendNext ==
    GenerateDocumentSection \/ AnswerQuestion \/ Return \/ GenerationRound \/ NextRound

QaNext == Startup \/ MainStart \/ ReadQuestion \/ RetrieveExact \/ Fallback \/ Answer

\* the two drafting programs: the backend serving requests, and generation.py
SpecBackend == Init /\ [][BackendNext]_vars

InitQA ==
    /\ program = "qa"
    /\ QaInit
    /\ settings = DefaultBackend
    /\ request = NoRequest
    /\ response = NoResponse
    /\ GenerationInit
    /\ FunctionsInit
    /\ UiInit

\* the QA command-line program
SpecQA == InitQA /\ [][QaNext]_vars

InitFunctions ==
    /\ program = "functions"
    /\ settings = DefaultBackend
    /\ request = NoRequest
    /\ response = NoResponse
    /\ GenerationInit
    /\ QaInit
    /\ FunctionsInit
    /\ UiInit

FunctionsNext ==
    AssembleContext \/ FilterTwice \/ ConvertDistance \/ MergeTopK \/ Discard

\* the helper functions called with arguments of the caller's choice
SpecFunctions == InitFunctions /\ [][FunctionsNext]_vars

InitUI ==
    /\ program = "ibm"
    /\ settings = DefaultBackend
    /\ request = NoRequest
    /\ response = NoResponse
    /\ GenerationInit
    /\ QaInit
    /\ FunctionsInit
    /\ ui \in {Session(backend) : backend \in BOOLEAN}

\* the Streamlit application: one browser session and the widgets the user works
SpecUI == InitUI /\ [][UiNext]_vars

----------------------------------------------------------------------------
(* The call log of the question being handled *)

Logged(fn) == {i \in DOMAIN qa_calls : qa_calls[i].fn = fn}
LoggedFor(fn, coll) == {i \in Logged(fn) : qa_calls[i].coll = coll}
Entry(fn) == qa_calls[CHOOSE i \in Logged(fn) : TRUE]
EntryFor(fn, coll) == qa_calls[CHOOSE i \in LoggedFor(fn, coll) : TRUE]

\* retrieve was called for this question and returned
RetrieveReturned == Logged("retrieve") # {} /\ Entry("retrieve").ok

\* the number of hits the two collections returned to retrieve
TotalReturned ==
    Len(EntryFor("query", "EPLC").dists) + Len(EntryFor("query", "HHS").dists)

Min(a, b) == IF a < b THEN a ELSE b

\* the place of a source in the order of registration, and of an id in its source
SourceIndex(id) ==
    CHOOSE s \in DOMAIN Sources : \E r \in 1..TOP_K : IdAt(Sources[s], r) = id
RankOf(id) ==
    CHOOSE r \in 1..TOP_K : \E s \in DOMAIN Sources : IdAt(Sources[s], r) = id

\* (distance, source, rank) of one hit is before that of another
KeyBefore(d1, id1, d2, id2) ==
    \/ d1 < d2
    \/ d1 = d2 /\ SourceIndex(id1) < SourceIndex(id2)
    \/ d1 = d2 /\ SourceIndex(id1) = SourceIndex(id2) /\ RankOf(id1) < RankOf(id2)

----------------------------------------------------------------------------
(* Claims about qa.py, checked under SpecQA *)

\* C1: whatever the two collections return to retrieve(q, k), the distances it
\* returns are sorted non-decreasing, and ids, docs and dists each have length
\* min(k, number of hits the two collections returned).
C1_MergeSortedTopK ==
    RetrieveReturned =>
        /\ \A i, j \in DOMAIN dists : i < j => dists[i] <= dists[j]
        /\ Len(ids) = Min(TOP_K, TotalReturned)
        /\ Len(docs) = Min(TOP_K, TotalReturned)
        /\ Len(dists) = Min(TOP_K, TotalReturned)

\* C1 witness: EPLC returned [0.1, 0.9] and HHS [0.2]; the merge kept two of the three
C1_Witness ==
    /\ RetrieveReturned
    /\ EntryFor("query", "EPLC").dists = <<1000, 9000>>
    /\ EntryFor("query", "HHS").dists = <<2000>>
    /\ ids = <<"EPLC-1", "HHS-1">>
    /\ dists = <<1000, 2000>>

\* C2: hits of equal distance come out in the order of their sources (EPLC before
\* HHS) and then of their rank in their source: the returned list is strictly
\* ascending by (distance, source, rank) and every hit left out comes after every
\* hit returned, so the order is a function of the per-source results alone.
C2_TieBreakBySourceThenRank ==
    RetrieveReturned =>
        /\ \A i, j \in DOMAIN ids :
             i < j => KeyBefore(dists[i], ids[i], dists[j], ids[j])
        /\ \A s \in DOMAIN Sources :
             LET e == EntryFor("query", Sources[s])
             IN  \A r \in DOMAIN e.ids :
                   (\A i \in DOMAIN ids : ids[i] # e.ids[r])
                   => \A i \in DOMAIN ids :
                        KeyBefore(dists[i], ids[i], e.dists[r], e.ids[r])

\* C2 witness: the best hits of both sources are at 0.2, and EPLC's comes first
C2_Witness ==
    /\ RetrieveReturned
    /\ EntryFor("query", "EPLC").dists = <<2000, 9000>>
    /\ EntryFor("query", "HHS").dists = <<2000>>
    /\ ids = <<"EPLC-1", "HHS-1">>
    /\ dists = <<2000, 2000>>

\* C3: when the nearest-neighbour query of one collection fails, retrieve does not
\* raise: it returns, and returns the hits of the other collection.
C3_QueryFailureStaysInside ==
    \A i \in Logged("query") :
        ~qa_calls[i].ok =>
            /\ qa_pc # "crash"
            /\ RetrieveReturned
            /\ \A j \in Logged("query") :
                 qa_calls[j].ok => Len(ids) = Min(TOP_K, Len(qa_calls[j].ids))

\* C4: for every question the exact retrieval comes first; the semantic retrieval
\* is issued exactly when the exact one returned nothing, with the same text, and
\* what it returns becomes the result.
C4_ExactThenFallback ==
    /\ \A i \in DOMAIN qa_calls :
         qa_calls[i].fn \in {"retrieve", "encode", "query", "chat"}
         => \E j \in Logged("retrieve_exact") : j < i
    /\ (qa_pc \in {"answer", "prompt", "crash"} /\ Logged("retrieve_exact") # {})
       => /\ Logged("retrieve") # {} <=> Entry("retrieve_exact").ids = <<>>
          /\ Entry("retrieve_exact").text = q
          /\ Logged("retrieve") # {} => Entry("retrieve").text = q
          /\ Logged("retrieve") = {} =>
                ids = Entry("retrieve_exact").ids /\ dists = Entry("retrieve_exact").dists
          /\ RetrieveReturned =>
                ids = Entry("retrieve").ids /\ dists = Entry("retrieve").dists

\* C4 witness: the exact retrieval found nothing and the semantic one supplied the hits
C4_Witness ==
    /\ qa_pc = "answer"
    /\ Logged("retrieve_exact") # {}
    /\ Entry("retrieve_exact").ids = <<>>
    /\ RetrieveReturned
    /\ q = "gate review"
    /\ ids = <<"HHS-1">>

\* the collections whose stored dimension is known and differs from the model's
Mismatched ==
    {c \in {"EPLCFramework_db", "HHS_db"} :
        LET d == IF c = "EPLCFramework_db" THEN dims.eplc ELSE dims.hhs
        IN  d # NoneDim /\ dims.model # NoneDim /\ d # dims.model}

\* the collections whose stored dimension is not known
Unknown ==
    {c \in {"EPLCFramework_db", "HHS_db"} :
        (IF c = "EPLCFramework_db" THEN dims.eplc ELSE dims.hhs) = NoneDim}

\* the mismatching collection that check_dim meets first: EPLC is checked before HHS
FirstMismatched ==
    IF "EPLCFramework_db" \in Mismatched THEN "EPLCFramework_db" ELSE "HHS_db"

\* C9 as stated: at start-up every collection whose known dimension differs from
\* the model's stops the process with a fatal message that names that collection,
\* and every collection whose dimension is unknown is skipped with a warning and
\* is never the one the process stops for.
C9_AsStated ==
    (qa_pc # "import" /\ dims.model # NoneDim) =>
        /\ \A c \in Mismatched :
              /\ qa_pc = "exit"
              /\ qa_fatal.why = "Embedding dim mismatch"
              /\ qa_fatal.names = c
        /\ qa_fatal.warned = Unknown
        /\ qa_fatal.names \notin Unknown

\* C9: at start-up, when a known dimension differs from the model's the process
\* stops with a fatal message that names the first mismatching collection in
\* check order (EPLC, then HHS), having warned about the unknown dimensions it
\* met before that one; when nothing mismatches it goes on, having warned about
\* every unknown dimension; a collection of unknown dimension is never the one
\* named.
C9_DimensionCheck ==
    (qa_pc # "import" /\ dims.model # NoneDim) =>
        /\ Mismatched # {} =>
              /\ qa_pc = "exit"
              /\ qa_fatal.why = "Embedding dim mismatch"
              /\ qa_fatal.names = FirstMismatched
              /\ qa_fatal.warned = IF FirstMismatched = "HHS_db" THEN Unknown ELSE {}
        /\ Mismatched = {} =>
              /\ qa_fatal.why # "Embedding dim mismatch"
              /\ qa_fatal.warned = Unknown
        /\ qa_fatal.names \notin Unknown

\* C9 witness: EPLC's dimension is unknown and skipped, HHS stores 768 against the
\* model's 1024 and is the collection named
C9_Witness ==
    /\ qa_pc = "exit"
    /\ dims = [eplc |-> NoneDim, hhs |-> 768, model |-> 1024]
    /\ qa_fatal = [why |-> "Embedding dim mismatch", names |-> "HHS_db",
                   warned |-> {"EPLCFramework_db"}]

----------------------------------------------------------------------------
(* Claims about backend_api.py and generation.py, checked under SpecBackend *)

\* generate_document_section returned a draft
Drafted == request.op = "generate_document_section" /\ response.ret.success

\* generation.py printed a draft
Printed == cli.pc = "printed"

\* the draft is the generated text followed by the assumptions block
WithDisclaimer(generated, draft) == draft = generated \o ASSUMPTIONS
HasDisclaimer == WithDisclaimer(response.generated, response.ret.draft)
CliHasDisclaimer == WithDisclaimer(cli.generated, cli.draft)

\* the similarity 1.0 - distance of a hit; 0.0 for a distance that is no number
Similarity(d) == IF d = NoneDist THEN 0 ELSE One - d

\* the best similarity among the hits, 0.0 when there are none
Best(dd) == Max({Similarity(dd[i]) : i \in DOMAIN dd}, 0)

\* the j-th smallest member of a set of numbers
Nth(S, j) == CHOOSE i \in S : Cardinality({x \in S : x <= i}) = j

\* kept holds exactly the documents whose hit has similarity >= floor, in input order
KeptExactly(kept, ds, dd, floor) ==
    LET keep == {i \in DOMAIN ds : Similarity(dd[i]) >= floor}
    IN  /\ Len(kept) = Cardinality(keep)
        /\ \A j \in DOMAIN kept : kept[j] = ds[Nth(keep, j)]

\* C5: the threshold filter keeps exactly the hits whose similarity 1.0 - distance
\* is at least the similarity floor, a hit at the floor included, in input order.
C5_ThresholdFilter ==
    /\ response.context # Absent =>
         KeptExactly(response.kept, response.docs, response.dists, settings.sim_filter)
    /\ cli.context # Absent =>
         KeptExactly(cli.kept, cli.docs, cli.dists, settings.sim_filter)

\* C5 witness: floor 0.5; the first hit, at similarity 0.3, is dropped and the
\* second, at similarity exactly 0.5, is kept
C5_Witness ==
    /\ settings.sim_filter = 5000
    /\ response.dists = <<7000, 5000>>
    /\ response.kept = <<"doc two">>

\* the gate of one draft: the disclaimer is there exactly below 0.75 * min_sim
GateAt(dd, generated, draft) ==
    /\ WithDisclaimer(generated, draft) <=> 4 * Best(dd) < 3 * settings.min_sim
    /\ ~WithDisclaimer(generated, draft) => draft = generated
    /\ (settings.min_sim = 3500 /\ Best(dd) = 2625) => ~WithDisclaimer(generated, draft)
    /\ (settings.min_sim = 3500 /\ Best(dd) = 2624) => WithDisclaimer(generated, draft)

\* C6: the disclaimer is appended exactly when the best similarity is strictly
\* below 0.75 * min_sim: with min_sim 0.35 a best similarity of 0.2625 gets none
\* and one of 0.2624 gets it.
C6_GateBoundary ==
    /\ Drafted => GateAt(response.dists, response.generated, response.ret.draft)
    /\ Printed => GateAt(cli.dists, cli.generated, cli.draft)

\* C6 witness: min_sim 0.35 and a best hit at distance 0.7375, similarity 0.2625
C6_Witness ==
    /\ Drafted
    /\ settings.min_sim = 3500
    /\ response.dists = <<7375, 7376>>
    /\ response.ret.draft = "Generated text."

\* C7: with no hits at all, also when retrieval failed and returned nothing, the
\* disclaimer is appended for every positive min_sim.
C7_NoHitsDisclaimer ==
    /\ (Drafted /\ response.dists = <<>> /\ settings.min_sim > 0) => HasDisclaimer
    /\ (Printed /\ cli.dists = <<>> /\ settings.min_sim > 0) => CliHasDisclaimer

\* C7 witness: the embedding call failed, the draft was generated and carries the
\* disclaimer
C7_Witness ==
    /\ Drafted
    /\ ~request.embed_ok
    /\ settings.min_sim = 3500
    /\ response.ret.draft = "Generated text." \o ASSUMPTIONS

\* the gate looks at every hit returned: one at or above 0.75 * min_sim is enough
\* for no disclaimer, and all below gives the disclaimer
GateOverAll(dd, generated, draft) ==
    /\ (\E i \in DOMAIN dd : 4 * Similarity(dd[i]) >= 3 * settings.min_sim)
       => ~WithDisclaimer(generated, draft)
    /\ (dd # <<>> /\ \A i \in DOMAIN dd : 4 * Similarity(dd[i]) < 3 * settings.min_sim)
       => WithDisclaimer(generated, draft)

\* C8: the gate looks at every hit retrieval returned, not at the hits the filter
\* kept: one hit at or above 0.75 * min_sim suppresses the disclaimer even if the
\* filter dropped it, and the disclaimer is appended when every returned hit is below.
C8_GateBeforeFilter ==
    /\ Drafted => GateOverAll(response.dists, response.generated, response.ret.draft)
    /\ Printed => GateOverAll(cli.dists, cli.generated, cli.draft)

\* C8 witness: the only hit, at similarity 0.3, is below the filter floor 0.45 and
\* dropped, the context is the sentinel, and the draft has no disclaimer
C8_Witness ==
    /\ Drafted
    /\ settings = [sim_filter |-> 4500, min_sim |-> 3500]
    /\ response.dists = <<7000>>
    /\ response.kept = <<>>
    /\ response.context = NO_MATCHES
    /\ response.ret.draft = "Generated text."

\* a step of the request failed: the phase is no string, the database cannot be
\* opened, the embedding, the query or the completion raised
StepFailed ==
    \/ request.phase = NoneVal
    \/ ~request.open_ok
    \/ ~request.embed_ok
    \/ ~request.query_ok
    \/ ~request.chat_ok

\* C10: no exception leaves generate_document_section or answer_question, and
\* whatever step failed the result has success=False and an error message.
C10_EveryFailureReported ==
    request.op # "none" =>
        /\ ~response.raised
        /\ StepFailed =>
              /\ ~response.ret.success
              /\ response.ret.error \notin {Absent, NoneVal, ""}

----------------------------------------------------------------------------
(* Claims about failures of the collaborators *)

\* the handler reached the chat model, which raised or returned no text
GenerationFailed ==
    /\ request.op # "none"
    /\ response.context # Absent
    /\ \/ ~request.chat_ok
       \/ request.content \in {NoneVal, "", "  "}

\* C11: when the generation call fails or returns empty text, the result is a
\* failure with an explanatory message: it is not marked successful and carries no
\* draft or answer text.
C11_GenerationFailureReported ==
    GenerationFailed =>
        /\ ~response.ret.success
        /\ response.ret.error \notin {Absent, NoneVal, ""}
        /\ response.ret.draft \in {Absent, NoneVal}
        /\ response.ret.answer \in {Absent, NoneVal}

\* C12: when the embedding call fails, the retrieval that depends on it does not
\* raise: it returns, and returns no ids, no documents and no distances.
C12_EmbedFailureEmptyResult ==
    \A i \in Logged("encode") :
        ~qa_calls[i].ok =>
            /\ qa_pc # "crash"
            /\ RetrieveReturned
            /\ Entry("retrieve").ids = <<>>
            /\ Entry("retrieve").dists = <<>>
            /\ docs = <<>>

----------------------------------------------------------------------------
(* Claims about the helper functions, checked under SpecFunctions *)

\* the first n texts of ds with the delimiter between consecutive texts only
RECURSIVE Delimited(_, _)
Delimited(ds, n) ==
    IF n = 1 THEN ds[1] ELSE Delimited(ds, n - 1) \o "\n\n---\n\n" \o ds[n]

\* the context assemblies the programs perform: generate_document_section and
\* generation.py call join_context on what the filter kept, which may be nothing;
\* main of qa.py calls make_prompt behind "if not docs: ... continue" (lines
\* 251-255), so on one hit at least
Performed == calc.fn = "make_prompt" => calc.docs # <<>>

\* C13: context assembly, wherever the programs perform it, returns exactly
\* "(no strong matches)" for no hits, exactly the text of the hit for one hit,
\* and for two or more hits their texts in input order with the delimiter
\* between consecutive texts and none before or after.
C13_AssembleContext ==
    (calc.fn \in Assemblers /\ Performed) =>
        /\ calc.docs = <<>> => calc.out = "(no strong matches)"
        /\ Len(calc.docs) = 1 => calc.out = calc.docs[1]
        /\ Len(calc.docs) >= 2 => calc.out = Delimited(calc.docs, Len(calc.docs))

\* C13 witness: the backend's join_context was called on no hits and returned the
\* sentinel
C13_Witness ==
    /\ calc.fn = "EPLCBackend.join_context"
    /\ calc.docs = <<>>
    /\ calc.out = "(no strong matches)"

\* C14: the threshold filter is idempotent: called again, with the same floor, on
\* the hits it kept, each with its own distance, it returns them unchanged.
C14_FilterIdempotent ==
    calc.fn \in Filters => calc.again = calc.out

\* C14 witness: floor 0.45, hits at similarity 0.3 and 0.5; the first call keeps the
\* second hit and the second call keeps it again
C14_Witness ==
    /\ calc.fn = "EPLCBackend.filter_by_threshold"
    /\ calc.floor = 4500
    /\ calc.dists = <<7000, 5000>>
    /\ calc.out = <<"doc two">>
    /\ calc.again = <<"doc two">>

\* the conversions the programs call: the threshold filters and the confidence
\* gates go through these two, and pretty_sim of qa.py has no caller in src/
CalledConverters == {"EPLCBackend.dist_to_sim", "Retriever.dist_to_sim"}

\* C15: every distance-to-similarity conversion the programs call maps a
\* distance that is no number to the similarity 0.0 and does not raise, and the
\* threshold filter completes on such a distance: it keeps that hit exactly when
\* 0.0 reaches the floor.
C15_MalformedDistanceIsZero ==
    /\ (calc.fn \in CalledConverters /\ calc.dists = <<NoneDist>>) => calc.sim = 0
    /\ calc.fn \in Filters =>
          \A i \in DOMAIN calc.dists :
              calc.dists[i] = NoneDist =>
                  ((\E j \in DOMAIN calc.out : calc.out[j] = calc.docs[i])
                      <=> 0 >= calc.floor)

\* C15 witness: the filter of the backend was called on a hit whose distance is
\* None and on a hit at distance 0.5, with the floor 0.45, and kept the second
C15_Witness ==
    /\ calc.fn = "EPLCBackend.filter_by_threshold"
    /\ calc.floor = 4500
    /\ calc.dists = <<NoneDist, 5000>>
    /\ calc.out = <<"doc two">>

----------------------------------------------------------------------------
(* Claims about the exact retrieval of qa.py, checked under SpecQA *)

\* C16: when the substring query of one collection raises, retrieve_exact still
\* returns: the failing collection adds no hits and the matches of the other
\* collection are returned.
C16_ExactFailsSoft ==
    \A i \in Logged("get") :
        ~qa_calls[i].ok =>
            /\ Logged("retrieve_exact") # {}
            /\ Entry("retrieve_exact").ok
            /\ \A j \in Logged("get") :
                 qa_calls[j].ok => Entry("retrieve_exact").ids = qa_calls[j].ids
            /\ (\A j \in Logged("get") : ~qa_calls[j].ok)
               => Entry("retrieve_exact").ids = <<>>

\* C16 witness: the query of the EPLC collection raised and both matches of the
\* HHS collection came back
C16_Witness ==
    /\ qa_pc = "fallback"
    /\ ~EntryFor("get", "EPLC").ok
    /\ EntryFor("get", "HHS").ok
    /\ ids = <<"HHS-1", "HHS-2">>
    /\ docs = <<"HHS passage 1", "HHS passage 2">>

\* C17: every hit retrieve_exact returns has distance 0.0, and it returns as many
\* distances as documents.
C17_ExactDistancesZero ==
    qa_pc = "fallback" =>
        /\ Len(dists) = Len(docs)
        /\ \A i \in DOMAIN dists : dists[i] = 0
        /\ Entry("retrieve_exact").dists = dists

\* C17 witness: the collections matched two and one documents, two were returned,
\* each at distance 0.0
C17_Witness ==
    /\ qa_pc = "fallback"
    /\ Len(EntryFor("get", "EPLC").ids) = 2
    /\ Len(EntryFor("get", "HHS").ids) = 1
    /\ docs = <<"EPLC passage 1", "EPLC passage 2">>
    /\ dists = <<0, 0>>

----------------------------------------------------------------------------
(* Claims about the paths of the backend, checked under SpecBackend *)

\* C18: a database that holds more than one collection is rejected: the call fails
\* and none of its collections is picked, embedded for or queried.
C18_MultiCollectionRejected ==
    (request.op # "none" /\ Len(request.collections) > 1) =>
        /\ ~response.ret.success
        /\ response.calls = <<>>
        /\ response.context = Absent

\* answer_question returned an answer
Answered == request.op = "answer_question" /\ response.ret.success

\* C19: the answer of answer_question goes through the confidence gate like the
\* draft of generate_document_section: it carries the assumptions block exactly
\* when the best similarity of the hits retrieval returned is below 0.75 * min_sim.
C19_AnswerGated ==
    /\ Drafted => GateAt(response.dists, response.generated, response.ret.draft)
    /\ Answered => GateAt(response.dists, response.generated, response.ret.answer)

----------------------------------------------------------------------------
(* Claims about the context of the QA loop, checked under SpecQA *)

\* C20: the context handed to generation holds only hits that passed the threshold
\* filter: every passage of the prompt has similarity 1.0 - distance at or above
\* the similarity floor.
C20_ContextOnlyFiltered ==
    Logged("chat") # {} =>
        /\ Entry("chat").text = make_prompt(q, docs)
        /\ \A i \in DOMAIN docs : One - dists[i] >= settings.sim_filter

----------------------------------------------------------------------------
(* Claims about the calls of the two retrievals of qa.py, checked under SpecQA *)

\* C21: a semantic retrieval embeds the query exactly once, before its queries, and
\* every collection is queried with that one embedding; the exact retrieval makes
\* no embedding call.
C21_EmbedOnce ==
    /\ Logged("retrieve") # {} =>
         /\ Cardinality(Logged("encode")) = 1
         /\ \A i \in Logged("query") :
              /\ qa_calls[i].text = Entry("encode").text
              /\ \A e \in Logged("encode") : e < i
    /\ Logged("retrieve") = {} => Logged("encode") = {}
    /\ \A e \in Logged("encode"), x \in Logged("retrieve_exact") : x < e

\* C21 witness: both collections answered a semantic retrieval that embedded once
C21_Witness ==
    /\ RetrieveReturned
    /\ Cardinality(Logged("encode")) = 1
    /\ Cardinality(Logged("query")) = 2
    /\ EntryFor("query", "EPLC").dists = <<1000>>
    /\ EntryFor("query", "HHS").dists = <<2000>>
    /\ Entry("encode").text = "query: What is EPLC?"

----------------------------------------------------------------------------
(* Claims about the merge over the contents of the sources, under SpecFunctions *)

\* the distances of every document of both collections
AllHeld == calc.contents.EPLC \o calc.contents.HHS

\* the number of entries of dd that are at most d
AtMost(dd, d) == Cardinality({i \in DOMAIN dd : dd[i] <= d})

\* C22: when each collection returns its own k nearest hits, nearest first, the
\* hits retrieve returns are the k nearest of all documents of both collections:
\* as many as min(k, documents held), below every distance as many as the
\* collections hold there (up to k), each a distinct hit with its own distance.
C22_GlobalTopK ==
    calc.fn = "retrieve" =>
        /\ Len(calc.dists) = Min(calc.k, Len(AllHeld))
        /\ Len(calc.ids) = Len(calc.dists)
        /\ \A d \in QaDistValues :
             AtMost(calc.dists, d) = Min(calc.k, AtMost(AllHeld, d))
        /\ \A i \in DOMAIN calc.ids :
             calc.dists[i] = calc.contents[Sources[SourceIndex(calc.ids[i])]][RankOf(calc.ids[i])]
        /\ \A i, j \in DOMAIN calc.ids : i # j => calc.ids[i] # calc.ids[j]

\* C22 witness: EPLC holds [0.1, 0.9] and HHS [0.2]; with k = 2 the merge returns
\* EPLC's first hit and HHS's hit
C22_Witness ==
    /\ calc.fn = "retrieve"
    /\ calc.k = 2
    /\ calc.contents = [EPLC |-> <<1000, 9000>>, HHS |-> <<2000>>]
    /\ calc.ids = <<"EPLC-1", "HHS-1">>
    /\ calc.dists = <<1000, 2000>>

----------------------------------------------------------------------------
(* Claims about the order of the exact retrieval, checked under SpecQA *)

\* C23: retrieve_exact returns at most k hits, with ids, docs and dists of one
\* length, every EPLC match before any HHS match, in the order the collections
\* gave them; when the EPLC collection alone gives k matches, no HHS match is
\* returned.
C23_ExactEplcFirst ==
    qa_pc = "fallback" =>
        LET found == EntryFor("get", "EPLC").ids \o EntryFor("get", "HHS").ids
        IN  /\ Len(ids) <= TOP_K
            /\ Len(ids) = Min(TOP_K, Len(found))
            /\ Len(docs) = Len(ids)
            /\ Len(dists) = Len(ids)
            /\ \A i \in DOMAIN ids : ids[i] = found[i]
            /\ \A i, j \in DOMAIN ids :
                 i < j => SourceIndex(ids[i]) <= SourceIndex(ids[j])
            /\ Len(EntryFor("get", "EPLC").ids) = TOP_K
               => ids = EntryFor("get", "EPLC").ids

\* C23 witness: EPLC gave k = 2 matches and HHS one; only EPLC's two are returned
C23_Witness ==
    /\ qa_pc = "fallback"
    /\ Len(EntryFor("get", "EPLC").ids) = 2
    /\ EntryFor("get", "HHS").ids = <<"HHS-1">>
    /\ ids = <<"EPLC-1", "EPLC-2">>

----------------------------------------------------------------------------
(* Claims about the order of the checks of the backend, under SpecBackend *)

\* the filter floor is at least 0.75 times the min-similarity floor
FloorCoversGate == 4 * settings.sim_filter >= 3 * settings.min_sim

\* C24: when the filter floor is at least 0.75 * min_sim, a draft that carries the
\* disclaimer was generated from the sentinel context: no hit passed the filter.
C24_DisclaimerMeansNoContext ==
    /\ (Drafted /\ FloorCoversGate /\ HasDisclaimer) =>
         response.kept = <<>> /\ response.context = "(no strong matches)"
    /\ (Printed /\ FloorCoversGate /\ CliHasDisclaimer) =>
         cli.kept = <<>> /\ cli.context = "(no strong matches)"

\* C24 witness: the defaults 0.45 and 0.35, hits at similarity 0.2624 and below:
\* none is kept and the draft carries the disclaimer
C24_Witness ==
    /\ Drafted
    /\ settings = [sim_filter |-> 4500, min_sim |-> 3500]
    /\ response.dists = <<7376, 12000>>
    /\ response.context = "(no strong matches)"
    /\ response.ret.draft = "Generated text." \o ASSUMPTIONS

\* the messages of the failures that are returned before retrieval
InvalidPhaseError ==
    "Invalid phase. Must be one of: requirement, design, implementation, development"
MissingFolderErrors ==
    {"Database folder for phase '" \o p \o "' not found at " \o PHASE_PATHS[p] :
       p \in DOMAIN PHASE_PATHS}
    \cup {"Database folder for phase '" \o p \o "' not found" : p \in DOMAIN PHASE_PATHS}
NoCollectionsErrors ==
    {"No collections found in " \o p \o " database" : p \in DOMAIN PHASE_PATHS}
    \cup {"No collections found in database"}

\* the call returned a failure for an invalid phase, a missing folder or no collections
FailedEarly ==
    /\ request.op # "none"
    /\ ~response.ret.success
    /\ response.ret.error
         \in {InvalidPhaseError} \cup MissingFolderErrors \cup NoCollectionsErrors

\* C25: a call that returns a failure for an invalid phase, a missing database
\* folder or a database without collections has made no embedding call and no
\* generation call.
C25_NoModelCallBeforeChecks ==
    FailedEarly => response.calls = <<>>

\* C25 witness: the folder is there but the database has no collections
C25_Witness ==
    /\ request.op = "generate_document_section"
    /\ request.collections = <<>>
    /\ response.ret.error = "No collections found in requirement database"
    /\ response.calls = <<>>

\* the phase argument is a string that is no key of PHASE_PATHS once lower-cased
UnknownPhase ==
    /\ request.op # "none"
    /\ request.phase # NoneVal
    /\ lower(request.phase) \notin DOMAIN PHASE_PATHS

\* C26: with an unknown phase generate_document_section returns success=False
\* and the invalid-phase error whatever the file system holds, while
\* answer_question never returns that error: it reports the implementation
\* folder when that folder is missing, and otherwise goes on to the
\* implementation database and answers from it when the database and the
\* models work.
C26_UnknownPhase ==
    /\ (UnknownPhase /\ request.op = "generate_document_section") =>
         /\ ~response.ret.success
         /\ response.ret.error = InvalidPhaseError
         /\ response.calls = <<>>
    /\ (UnknownPhase /\ request.op = "answer_question") =>
         /\ response.ret.error # InvalidPhaseError
         /\ PHASE_PATHS.implementation \notin request.fs =>
              response.ret.error = "Database folder for phase 'implementation' not found"
         /\ PHASE_PATHS.implementation \in request.fs =>
              response.ret.error \notin MissingFolderErrors
         /\ (/\ PHASE_PATHS.implementation \in request.fs
             /\ request.open_ok /\ request.collections # <<>>
             /\ request.embed_ok /\ request.query_ok /\ request.chat_ok) =>
              response.ret.success /\ Len(response.calls) > 0

\* C26 witness: only the implementation folder exists and the question with
\* the unknown phase is answered from it
C26_Witness ==
    /\ request.op = "answer_question"
    /\ request.phase = "bogus"
    /\ request.fs = {PHASE_PATHS.implementation}
    /\ response.ret.success
    /\ response.docs # <<>>


----------------------------------------------------------------------------
(* Claims about the pages of the Streamlit application, under SpecUI *)

\* C27: the create-document flow is at step 3 only with a phase and one of
\* its documents selected ('Select Section' cannot be clicked before), and it
\* is drawn enabled only then; a selected document belongs to the selected
\* phase and without a selected document no sections are loaded, because
\* selecting a phase clears the document and the sections.
C27_Step3NeedsPhaseAndDocument ==
    /\ ui.create_doc_step = 3 =>
         /\ ui.selected_phase \in DOMAIN PHASE_DOC_MAP
         /\ ui.selected_document \in doc_names(ui.selected_phase)
    /\ ui.page.ready =>
         ui.selected_phase # NoneVal /\ ui.selected_document # NoneVal
    /\ ui.selected_document # NoneVal =>
         ui.selected_document \in doc_names(ui.selected_phase)
    /\ ui.selected_document = NoneVal => ui.document_sections = <<>>

\* C27 witness: step 3 of a document of the second phase selected, after a
\* section of a document of the other phase was generated
C27_Witness ==
    /\ ui.backend
    /\ ui.create_doc_step = 3
    /\ ui.page.view = "step3"
    /\ ui.selected_phase = "Requirement"
    /\ ui.selected_document = "Requirements Definition"
    /\ "1.1" \in DOMAIN ui.generated_for
    /\ ui.generated_for["1.1"][1] = "Design"

\* C28: whenever step 3 is on the screen, the run read
\* document_sections[selected_section] with selected_section an index of the list.
C28_SectionIndexInBounds ==
    ui.page.view = "step3" =>
        /\ ui.page.error = "none"
        /\ ui.page.read \in 0..(Len(ui.document_sections) - 1)

\* C29: the generated content on the screen of step 3 was produced by a call
\* made for the selected phase, the selected document and the section shown.
C29_ContentOfThisSection ==
    (ui.page.view = "step3" /\ ui.page.section_output # "") =>
        ui.generated_for[ui.page.section_key]
          = <<ui.selected_phase, ui.selected_document,
              ui.document_sections[ui.selected_section + 1].section_title>>

\* C30: the history holds one entry for each question submitted since the
\* last restart, with that question, in the order of submission.
C30_OneEntryPerQuestion ==
    /\ Len(ui.qa_history) = Len(ui.submitted)
    /\ \A i \in 1..Len(ui.qa_history) : ui.qa_history[i].question = ui.submitted[i]

====
